---------------------------- MODULE Spec2Model ----------------------------
(***************************************************************************)
(* VIM://RUNNER: the keystroke parser (js/input/inputHandler.js), the      *)
(* game-mode state machine (js/core/stateManager.js) and the parts of the  *)
(* player, enemies and level data they drive.                              *)
(*                                                                         *)
(* Every handler of the program is an operator from a "world" record (one  *)
(* field per object field of the program) to the world it leaves behind;   *)
(* an action applies one handler to the current variables.  Times are      *)
(* counted in thirds of a second, so that 1/speed of a chaser (speed 1.5   *)
(* or 1.0 tiles per second) is the integer 2 or 3; an enemy's cooldown     *)
(* also carries the rounding error of the double the program holds.        *)
(* stateManager.js uses the name INPUT_MODE, which none of the imports it  *)
(* lists binds: a behaviour is of a build that binds it or of one that     *)
(* does not, where evaluating the name throws.  Its class PlayingState     *)
(* defines processPlayerActions twice, the second time (line 216) with the *)
(* body "remains the same": a behaviour is of the class as listed, whose   *)
(* second, empty method is the one in force, or of the class whose second  *)
(* method has the body of the first.                                       *)
(***************************************************************************)
EXTENDS Integers, Sequences, FiniteSets, TLC

VARIABLES
    \* InputHandler
    active, mode, commandBuffer, numericPrefix, targetTypingPhrase,
    currentTypingIndex, commandQueue, actionListeners,
    \* callbacks scheduled with setTimeout by _handleNormalMode, not yet run
    pendingTimeouts,
    \* StateManager
    currentState, currentStateName, previousStateName,
    \* LoadingState
    loadingLevelId, levelLoaded, assetsLoaded, levelData,
    \* LevelManager
    lmCurrentLevelId, levels,
    \* the tiles of LoadingState's levelData and of PlayingState's currentLevel
    levelDataTiles, currentLevelTiles,
    \* PlayingState
    currentLevel, elapsedTime, enemies,
    \* Player
    playerX, playerY, integrity, playerState, score,
    \* GameOverState, LevelCompleteState
    goFinalScore, goLevelId, lcFinalScore, lcNextLevelId, lcCurrentLevelId,
    \* UIManager: whether the page has the element #status-message
    \* (elements.statusMessage is not null), its text and the timer's id
    statusMessageElement, statusMessage, messageTimeoutId,
    \* callbacks scheduled with setTimeout by showMessage, not yet run or cleared
    messageTimers,
    \* GameLoop, and the collaborators initializeGame has for StateManager
    gameLoop, dependencies,
    \* whether stateManager.js has a binding for the name INPUT_MODE (its import
    \* list is abridged and the listed imports do not bind it), and the error
    \* the last operation threw, "" when it threw none
    inputModeBound, processPlayerActionsElided, thrown,
    \* observation only: what the last operation was and what it did
    emitted, generatedActions, lifecycle, hist, opArmed, pauseSnapshot

vars == << active, mode, commandBuffer, numericPrefix, targetTypingPhrase,
           currentTypingIndex, commandQueue, actionListeners, pendingTimeouts,
           currentState, currentStateName, previousStateName,
           loadingLevelId, levelLoaded, assetsLoaded, levelData,
           lmCurrentLevelId, levels, levelDataTiles, currentLevelTiles,
           currentLevel, elapsedTime, enemies,
           playerX, playerY, integrity, playerState, score,
           goFinalScore, goLevelId, lcFinalScore, lcNextLevelId,
           lcCurrentLevelId, statusMessageElement, statusMessage,
           messageTimeoutId, messageTimers,
           gameLoop, dependencies, inputModeBound,
           processPlayerActionsElided, thrown,
           emitted, generatedActions, lifecycle, hist, opArmed, pauseSnapshot >>

---------------------------------------------------------------------------
\* Bounds of the model

\* digits the numeric prefix may hold
MaxPrefixLen == 2
\* setTimeout callbacks that may be pending at once
MaxTimeouts == 1
\* frames PlayingState.update may run in one level entry
MaxFrames == 4
\* the player's integrity on level entry
MaxIntegrity == 1
\* the time between two frames, in thirds of a second
DeltaTime == 2
\* the largest count an operator command handed to the Player carries
MaxCount == 2
\* calls of update and render a behaviour of the loop specification records
MaxLoopCalls == 6
\* the largest rounding error of a cooldown, in units of 2^-56 / 3 seconds,
\* with which the enemy specification goes on updating an enemy
MaxCooldownError == 24
\* queued commands at which no further key arrives
MaxQueue == 2

---------------------------------------------------------------------------
\* Values

Null == "null"

INPUT_MODE == [NORMAL |-> "NORMAL", TYPING |-> "TYPING"]

\* the message of the ReferenceError that evaluating an unbound INPUT_MODE throws
INPUT_MODE_undefined == "INPUT_MODE is not defined"

\* the builds of stateManager.js the listing leaves open, on a page that has
\* the element #status-message or lacks it
Builds == [inputModeBound : BOOLEAN, processPlayerActionsElided : BOOLEAN,
           statusMessageElement : BOOLEAN]

\* throw error: the statements after it are skipped
Throw(w, error) == [w EXCEPT !.thrown = error]
Threw(w) == w.thrown # ""

\* the six modes StateManager's constructor instantiates
StateNames == {"MENU", "LOADING", "PLAYING", "PAUSED", "GAME_OVER", "LEVEL_COMPLETE"}

\* names every object literal inherits from Object.prototype: this.states[name]
\* finds a (truthy) value for them although no mode has that name
InheritedNames ==
    {"constructor", "toString", "valueOf", "hasOwnProperty", "isPrototypeOf",
     "propertyIsEnumerable", "toLocaleString", "__proto__", "__defineGetter__",
     "__defineSetter__", "__lookupGetter__", "__lookupSetter__"}

\* a command that is null
NoCommand == [type |-> "null"]

\* the params argument of switchTo/enter; 0 stands for an absent property
NoParams == [levelId |-> 0, levelData |-> 0, score |-> 0, nextLevelId |-> 0]

Max(a, b) == IF a >= b THEN a ELSE b
Min(a, b) == IF a <= b THEN a ELSE b
Abs(n) == IF n < 0 THEN -n ELSE n
Sign(n) == IF n > 0 THEN 1 ELSE IF n < 0 THEN -1 ELSE 0

Digits19 == {"1", "2", "3", "4", "5", "6", "7", "8", "9"}
Digits09 == Digits19 \cup {"0"}

DigitValue(c) ==
    CASE c = "0" -> 0 [] c = "1" -> 1 [] c = "2" -> 2 [] c = "3" -> 3
      [] c = "4" -> 4 [] c = "5" -> 5 [] c = "6" -> 6 [] c = "7" -> 7
      [] c = "8" -> 8 [] c = "9" -> 9

\* parseInt(s, 10) of a non-empty string of decimal digits
RECURSIVE parseInt(_)
parseInt(s) ==
    IF Len(s) = 0 THEN 0
    ELSE parseInt(SubSeq(s, 1, Len(s) - 1)) * 10 + DigitValue(s[Len(s)])

\* key.length of a KeyboardEvent.key value
KeyLength(key) == Len(key)

---------------------------------------------------------------------------
\* InputHandler: the plain methods

setActive(w, isActive) ==
    IF isActive
    THEN [w EXCEPT !.active = TRUE]
    ELSE [w EXCEPT !.active = FALSE, !.commandBuffer = "",
                   !.numericPrefix = <<>>, !.commandQueue = <<>>]

\* variant: the typing index survives a mode switch
setMode_keepsIndex(w, newMode, targetPhrase) ==
    IF w.mode = newMode THEN w
    ELSE [w EXCEPT !.mode = newMode,
                   !.commandBuffer = "",
                   !.numericPrefix = <<>>,
                   !.targetTypingPhrase =
                       IF newMode = INPUT_MODE.TYPING THEN targetPhrase ELSE <<>>]

setMode(w, newMode, targetPhrase) ==
    IF w.mode = newMode THEN w
    ELSE [w EXCEPT !.mode = newMode,
                   !.commandBuffer = "",
                   !.numericPrefix = <<>>,
                   !.targetTypingPhrase =
                       IF newMode = INPUT_MODE.TYPING THEN targetPhrase ELSE <<>>,
                   !.currentTypingIndex = 0]

registerActionListener(w, actionName, callback) ==
    [w EXCEPT !.actionListeners =
        [a \in DOMAIN w.actionListeners \cup {actionName} |->
            IF a = actionName THEN callback ELSE w.actionListeners[a]]]

unregisterActionListener(w, actionName) ==
    [w EXCEPT !.actionListeners =
        [a \in DOMAIN w.actionListeners \ {actionName} |-> w.actionListeners[a]]]

\* queueCommand(command): a null command is not queued
queueCommand(w, command) ==
    IF command = NoCommand THEN w
    ELSE [w EXCEPT !.commandQueue = Append(w.commandQueue, command),
                   !.emitted = Append(w.emitted, command)]

\* getCommands returns the queue and leaves it empty
getCommandsResult(w) == w.commandQueue
\* variant: the queue is handed out but not cleared
getCommands_keepsQueue(w) == w

getCommands(w) == [w EXCEPT !.commandQueue = <<>>]

clearCommandBuffer(w) ==
    [w EXCEPT !.commandBuffer = "", !.numericPrefix = <<>>]

---------------------------------------------------------------------------
\* UIManager: the status message and its single timer.  A message is the
\* sequence of the pieces of its template string.

\* messageTimeoutId holds a timer id, or 0 for null (both are falsy)

\* clearTimeout(id): the timer with that id will not run
clearTimeout(timers, id) == {t \in timers : t.id # id}

\* setTimeout returns an id no pending timer has
newTimeoutId(timers) ==
    IF timers = {} THEN 1
    ELSE 1 + (CHOOSE n \in {t.id : t \in timers} : \A t \in timers : n >= t.id)

\* variant: the pending timer is forgotten but not cancelled
clearMessage_keepsTimer(w) ==
    [w EXCEPT !.messageTimeoutId = 0,
              !.statusMessage = IF w.statusMessageElement THEN <<>> ELSE @]

clearMessage(w) ==
    [w EXCEPT !.messageTimers = IF w.messageTimeoutId # 0
                                THEN clearTimeout(@, w.messageTimeoutId) ELSE @,
              !.messageTimeoutId = 0,
              !.statusMessage = IF w.statusMessageElement THEN <<>> ELSE @]

\* showMessage does nothing on a page without the element.  A timer
\* remembers the message it was scheduled for (observation only)
showMessage(w, message, duration) ==
    LET w1 == [clearMessage(w) EXCEPT !.statusMessage = message]
        id == newTimeoutId(w1.messageTimers)
    IN IF ~ w.statusMessageElement THEN w
       ELSE IF duration > 0
       THEN [w1 EXCEPT !.messageTimeoutId = id,
                       !.messageTimers = @ \cup {[id |-> id, message |-> message]}]
       ELSE w1

\* the callback showMessage scheduled
MessageTimeoutCallback(w) ==
    [w EXCEPT !.statusMessage = <<>>, !.messageTimeoutId = 0]

---------------------------------------------------------------------------
\* GameLoop.  calls lists the calls made to the update and render functions;
\* frameCalls and wasRunning describe the latest frame callback; afterStop
\* tells that stop() has returned and start() has not been called since.
\* rafId 0 stands for null.

GameLoop_constructor ==
    [isRunning |-> FALSE, lastTime |-> 0, rafId |-> 0, rafPending |-> {},
     now |-> 0, calls |-> <<>>, frameCalls |-> <<>>, wasRunning |-> FALSE,
     afterStop |-> FALSE]

\* requestAnimationFrame(this._loop): an id no pending request has
requestAnimationFrame(g) ==
    LET id == IF g.rafPending = {} THEN 1
              ELSE 1 + (CHOOSE n \in g.rafPending : \A m \in g.rafPending : n >= m)
    IN [g EXCEPT !.rafId = id, !.rafPending = @ \cup {id}]

GameLoop_start(g) ==
    IF g.isRunning THEN [g EXCEPT !.afterStop = FALSE]
    ELSE requestAnimationFrame([g EXCEPT !.isRunning = TRUE, !.lastTime = g.now,
                                         !.afterStop = FALSE])

GameLoop_stop(g) ==
    IF ~ g.isRunning THEN [g EXCEPT !.afterStop = TRUE]
    ELSE [g EXCEPT !.isRunning = FALSE,
                   !.rafPending = IF g.rafId # 0 THEN @ \ {g.rafId} ELSE @,
                   !.rafId = 0,
                   !.afterStop = TRUE]

\* a call of this.update or this.render and how it ended: "returns",
\* "throws", or "stops" when the function calls stop() and returns
called(g, fn, deltaTime, outcome) ==
    LET call == [fn |-> fn, deltaTime |-> deltaTime, outcome |-> outcome,
                 afterStop |-> g.afterStop]
        g1 == [g EXCEPT !.calls = Append(@, call), !.frameCalls = Append(@, call)]
    IN IF outcome = "stops" THEN GameLoop_stop(g1) ELSE g1

\* variant: the frame is drawn before it is updated
GameLoop_loop_renderFirst(g, currentTime, updateOutcome, renderOutcome) ==
    IF ~ g.isRunning THEN [g EXCEPT !.frameCalls = <<>>, !.wasRunning = FALSE]
    ELSE LET deltaTime == (currentTime - g.lastTime) \div 1000
             g1 == [g EXCEPT !.lastTime = currentTime, !.frameCalls = <<>>,
                             !.wasRunning = TRUE]
             g2 == called(g1, "render", 0, renderOutcome)
             g3 == called(g2, "update", deltaTime, updateOutcome)
         IN requestAnimationFrame(g3)

\* _loop(currentTime), with what the update and render functions do when
\* called
GameLoop_loop(g, currentTime, updateOutcome, renderOutcome) ==
    IF ~ g.isRunning THEN [g EXCEPT !.frameCalls = <<>>, !.wasRunning = FALSE]
    ELSE LET deltaTime == (currentTime - g.lastTime) \div 1000
             g1 == [g EXCEPT !.lastTime = currentTime, !.frameCalls = <<>>,
                             !.wasRunning = TRUE]
             g2 == called(g1, "update", deltaTime, updateOutcome)
             g3 == called(g2, "render", 0, renderOutcome)
         IN IF updateOutcome = "throws" THEN GameLoop_stop(g2)
            ELSE IF renderOutcome = "throws" THEN GameLoop_stop(g3)
            ELSE requestAnimationFrame(g3)

\* the five collaborators every mode needs
Dependencies == {"renderer", "inputHandler", "uiManager", "levelManager", "player"}

---------------------------------------------------------------------------
\* LevelManager: the two levels its constructor defines

LevelIds == {1, 2}

LevelWidth(id) == IF id = 1 THEN 20 ELSE 30
LevelHeight(id) == IF id = 1 THEN 5 ELSE 8
PlayerStart(id) == IF id = 1 THEN [x |-> 1, y |-> 2] ELSE [x |-> 1, y |-> 1]

\* _placeTile(tiles, x, y, tileData) merges tileData into the tile with an
\* object spread.  Called with an object it sets the type; called with a
\* string (a glyph, the type passed as an ignored fifth argument) the spread
\* adds the string's characters under the keys "0", "1", ... and leaves the
\* tile's char and type as they were.
placeTileType(oldType, tileData) ==
    IF tileData.isObject THEN tileData.type ELSE oldType

\* type of the tile (x, y) of level 1 as _defineLevel1 leaves it
Level1TileType(x, y) ==
    IF y = 0 \/ y = 4 THEN "barrier"                      \* _fillRow 0, height-1
    ELSE IF y = 2 /\ x = 11
         THEN placeTileType("pathway", [isObject |-> TRUE, type |-> "exit-node"])
    ELSE IF y = 2 /\ x \in 7..9 THEN "data-node"          \* "RUN", typeable
    ELSE IF y = 2 /\ x \in 1..5 THEN "decoration"         \* "TYPE:"
    ELSE "pathway"

\* type of the tile (x, y) of level 2 as _defineLevel2 leaves it
Level2TileType(x, y) ==
    IF x = 0 \/ x = 29 \/ y = 7 THEN "barrier"            \* _fillColumn, _fillRow
    ELSE IF y = 1 /\ (x \in 1..2 \/ x \in 5..11) THEN "data-node"   \* GO FORWARD
    ELSE IF y = 3 /\ (x \in 1..3 \/ x \in 6..11) THEN "data-node"   \* USE DELETE
    ELSE IF y = 5 /\ (x \in 1..5 \/ x \in 8..11) THEN "data-node"   \* REACH EXIT
    ELSE IF (x = 13 /\ y = 1) \/ (x = 13 /\ y = 3) \/ (x = 14 /\ y = 5)
         THEN placeTileType("pathway", [isObject |-> FALSE, type |-> ""])
    ELSE "pathway"

LevelTileType(id, x, y) ==
    IF id = 1 THEN Level1TileType(x, y) ELSE Level2TileType(x, y)

\* glyph of the tile (x, y) as the level definitions leave it: '.' from
\* _createEmptyGrid, the letters of _stringToTiles, '|' and '@' where
\* _placeTile or a fill was given an object
LevelTileChar(id, x, y) ==
    IF id = 1
    THEN IF y = 0 \/ y = 4 THEN "|"
         ELSE IF y = 2 /\ x = 11 THEN "@"
         ELSE IF y = 2 /\ x \in 7..9 THEN << "R", "U", "N" >>[x - 6]
         ELSE IF y = 2 /\ x \in 1..5 THEN << "T", "Y", "P", "E", ":" >>[x]
         ELSE "."
    ELSE IF x = 0 \/ x = 29 \/ y = 7 THEN "|"
         ELSE IF y = 1 /\ x \in 1..2 THEN << "G", "O" >>[x]
         ELSE IF y = 1 /\ x \in 5..11
              THEN << "F", "O", "R", "W", "A", "R", "D" >>[x - 4]
         ELSE IF y = 3 /\ x \in 1..3 THEN << "U", "S", "E" >>[x]
         ELSE IF y = 3 /\ x \in 6..11
              THEN << "D", "E", "L", "E", "T", "E" >>[x - 5]
         ELSE IF y = 5 /\ x \in 1..5 THEN << "R", "E", "A", "C", "H" >>[x]
         ELSE IF y = 5 /\ x \in 8..11 THEN << "E", "X", "I", "T" >>[x - 7]
         ELSE "."

\* Chaser's constructor: health 2, speed 1.5 unless the spawn overrides them.
\* speed is kept in tenths of a tile per second.
NewChaser(x, y, speed, grid) ==
    [type |-> "chaser", x |-> x, y |-> y, health |-> 2, speed |-> speed,
     state |-> "chasing", moveCooldown |-> 0, moveCooldownError |-> 0,
     currentLevelGrid |-> grid]

EnemySpawns(id) ==
    IF id = 1 THEN << NewChaser(15, 2, 15, 1) >>
    ELSE << NewChaser(20, 1, 15, 2), NewChaser(10, 4, 10, 2), NewChaser(25, 5, 15, 2) >>

\* loadLevel(levelId): a copy of the definition, or null (0) for an unknown id
loadLevelResult(levelId) == IF levelId \in LevelIds THEN levelId ELSE 0
loadLevel(w, levelId) ==
    IF levelId \in LevelIds THEN [w EXCEPT !.lmCurrentLevelId = levelId] ELSE w

\* A level object's tiles are kept as the tiles that differ from what its
\* _defineLevel function built, keyed by << x, y >>; isDefinition tells
\* whether the object is the one stored in LevelManager.levels.
NoTiles == [tiles |-> <<>>, isDefinition |-> FALSE]

tileOf(id, changed, x, y) ==
    IF << x, y >> \in DOMAIN changed THEN changed[<< x, y >>]
    ELSE [char |-> LevelTileChar(id, x, y), type |-> LevelTileType(id, x, y)]

\* variant: the object itself is handed out
deepCopy_sameObject(level) == level

\* JSON.parse(JSON.stringify(definitionCopy)): a new object, equal content
deepCopy(level) == [level EXCEPT !.isDefinition = FALSE]

\* the tiles of the level object loadLevel(levelId) returns
loadLevelTiles(w, levelId) ==
    IF levelId \in LevelIds
    THEN deepCopy([tiles |-> w.levels[levelId], isDefinition |-> TRUE])
    ELSE NoTiles

---------------------------------------------------------------------------
\* Enemy and Chaser

\* 1 / speed, in thirds of a second
CooldownStep(speed) == 30 \div speed

\* The program keeps times as IEEE doubles.  A double x is written as the
\* pair (thirds, error) with x = thirds/3 + error * 2^-56 / 3: the time in
\* thirds of a second and what rounding has added to it.
RECURSIVE Pow2(_)
Pow2(k) == IF k = 0 THEN 1 ELSE 2 * Pow2(k - 1)

\* q with 2^(q-2) <= x < 2^(q-1), for x = a/3 + jj * 2^-56 / 3 and a >= 1
Binade(a, jj) ==
    LET top == CHOOSE q \in 0..8 : 3 * Pow2(q) <= 4 * a /\ 4 * a < 3 * Pow2(q + 1)
    IN IF 4 * a = 3 * Pow2(top) /\ jj < 0 THEN top - 1 ELSE top

\* the double nearest to thirds/3 + error * 2^-56 / 3 (ties to even), which
\* is what a subtraction or addition of two doubles yields
Double(thirds, error) ==
    IF thirds = 0 THEN [thirds |-> 0, error |-> error]
    ELSE LET sign == Sign(thirds)
             a == Abs(thirds)
             jj == sign * error
             rounded(q) ==
                 LET ulp3 == 3 * Pow2(q + 2)      \* 3 ulp, in units of 2^-56 / 3
                     unit == Pow2(q + 3) * (IF (q + 3) % 2 = 0 THEN 1 ELSE 2)
                                                   \* 2^56 modulo 2 * ulp3
                     t2 == (a * unit + jj) % (2 * ulp3)
                     rem == t2 % ulp3
                     d == IF 2 * rem < ulp3 THEN - rem
                          ELSE IF 2 * rem > ulp3 THEN ulp3 - rem
                          ELSE IF t2 - rem = 0 THEN - rem ELSE ulp3 - rem
                 IN [thirds |-> thirds, error |-> sign * (jj + d)]
         IN CHOOSE r \in { rounded(q) : q \in {Binade(a, jj)} } : TRUE

isDefeated(e) == e.health <= 0

\* variant: the health is not clamped at 0
Enemy_takeDamage_unclamped(e, amount) ==
    LET health == e.health - amount
    IN [e EXCEPT !.health = health,
                 !.state = IF health = 0 THEN "defeated" ELSE e.state]

\* takeDamage(amount): health never drops below 0; at 0 the enemy is defeated
Enemy_takeDamage(e, amount) ==
    LET health == Max(0, e.health - amount)
    IN [e EXCEPT !.health = health,
                 !.state = IF health = 0 THEN "defeated" ELSE e.state]

\* variant: barriers do not block
isValidMove_throughBarriers(e, targetX, targetY) ==
    /\ e.currentLevelGrid # 0
    /\ ~ (targetX < 0 \/ targetX >= LevelWidth(e.currentLevelGrid)
            \/ targetY < 0 \/ targetY >= LevelHeight(e.currentLevelGrid))

\* _isValidMove(targetX, targetY)
isValidMove(e, targetX, targetY) ==
    /\ e.currentLevelGrid # 0
    /\ ~ (targetX < 0 \/ targetX >= LevelWidth(e.currentLevelGrid)
            \/ targetY < 0 \/ targetY >= LevelHeight(e.currentLevelGrid))
    /\ LevelTileType(e.currentLevelGrid, targetX, targetY) # "barrier"

\* Enemy.update: the cooldown; canAttemptMove is what it returns
Enemy_update(e, deltaTime) ==
    LET \* this.moveCooldown = 1.0 / this.speed, added to the cooldown c
        reset(c, step) ==
            Double(c.thirds + step.thirds, c.error + step.error)
        \* if (this.moveCooldown <= 0), after the subtraction left c
        expired(c, step) ==
            IF c.thirds < 0 \/ (c.thirds = 0 /\ c.error <= 0)
            THEN [cooldown |-> reset(c, step), canAttemptMove |-> TRUE]
            ELSE [cooldown |-> c, canAttemptMove |-> FALSE]
        \* this.moveCooldown -= deltaTime
        cooled(dt, step) ==
            { expired(c, step) :
                c \in {Double(e.moveCooldown - dt.thirds,
                              e.moveCooldownError - dt.error)} }
        r == CHOOSE r \in UNION { cooled(dt, step) :
                                    dt \in {Double(deltaTime, 0)},
                                    step \in {Double(CooldownStep(e.speed), 0)} } : TRUE
    IN [enemy |-> [e EXCEPT !.moveCooldown = r.cooldown.thirds,
                            !.moveCooldownError = r.cooldown.error],
        canAttemptMove |-> r.canAttemptMove]

\* Chaser.update(deltaTime, playerPosition)
Chaser_update(e0, deltaTime, px, py) ==
    LET chase(r) ==
         LET e == r.enemy
             dx == px - e.x
             dy == py - e.y
             \* preferred direction
             moveX == IF Abs(dx) > Abs(dy) THEN Sign(dx)
                      ELSE IF Abs(dy) > 0 THEN 0
                      ELSE IF Abs(dx) > 0 THEN Sign(dx) ELSE 0
             moveY == IF Abs(dx) > Abs(dy) THEN 0
                      ELSE IF Abs(dy) > 0 THEN Sign(dy) ELSE 0
             \* alternate direction when the preferred one is blocked
             altX == IF moveX # 0 /\ moveY = 0 THEN 0 ELSE Sign(dx)
             altY == IF moveX # 0 /\ moveY = 0 THEN Sign(dy) ELSE 0
         IN IF ~ r.canAttemptMove \/ isDefeated(e) THEN e
            ELSE IF moveX = 0 /\ moveY = 0 THEN e
            ELSE IF isValidMove(e, e.x + moveX, e.y + moveY)
                 THEN [e EXCEPT !.x = e.x + moveX, !.y = e.y + moveY]
            ELSE IF (altX # 0 \/ altY # 0) /\ isValidMove(e, e.x + altX, e.y + altY)
                 THEN [e EXCEPT !.x = e.x + altX, !.y = e.y + altY]
            ELSE e
    IN CHOOSE moved \in { chase(r) : r \in {Enemy_update(e0, deltaTime)} } : TRUE

---------------------------------------------------------------------------
\* Player

\* takeDamage(amount): integrity never drops below 0; at 0 the player is defeated
Player_takeDamage(w, amount) ==
    LET i == Max(0, w.integrity - amount)
    IN [w EXCEPT !.integrity = i,
                 !.playerState = IF i = 0 THEN "defeated" ELSE w.playerState]

\* a MOVE command: count steps in the direction, clamped to the grid bounds
Player_handleMove(w, direction, count) ==
    IF w.currentLevel = 0 THEN w
    ELSE CASE direction = "LEFT"  -> [w EXCEPT !.playerX = Max(0, w.playerX - count)]
           [] direction = "RIGHT" ->
                [w EXCEPT !.playerX = Min(LevelWidth(w.currentLevel) - 1, w.playerX + count)]
           [] direction = "UP"    -> [w EXCEPT !.playerY = Max(0, w.playerY - count)]
           [] direction = "DOWN"  ->
                [w EXCEPT !.playerY = Min(LevelHeight(w.currentLevel) - 1, w.playerY + count)]
           [] OTHER -> w

\* Vim motion helpers, on row startY of the player's grid.  A word is a
\* maximal run of non-whitespace tiles; a search that runs off the row gives
\* the line's end (forward) or start (backward).
isWhitespace(char) == char \in {" ", "."}
IsBlank(level, x, y) == isWhitespace(LevelTileChar(level, x, y))

findLineStart(level, startY) == [x |-> 0, y |-> startY]
findLineEnd(level, startY) == [x |-> LevelWidth(level) - 1, y |-> startY]
findLineFirstChar(level, startY) ==
    LET cols == {x \in 0..LevelWidth(level) - 1 : ~ IsBlank(level, x, startY)}
    IN [x |-> IF cols = {} THEN 0 ELSE CHOOSE x \in cols : \A c \in cols : x <= c,
        y |-> startY]

findNextWordStart(level, startX, startY) ==
    LET cols == {x \in startX + 1..LevelWidth(level) - 1 :
                    ~ IsBlank(level, x, startY) /\ IsBlank(level, x - 1, startY)}
    IN IF cols = {} THEN findLineEnd(level, startY)
       ELSE [x |-> CHOOSE x \in cols : \A c \in cols : x <= c, y |-> startY]

\* the start of the nearest word that begins before startX; the start of
\* the line where no word begins before it
findPreviousWordStart(level, startX, startY) ==
    LET cols == {x \in 0..startX - 1 :
                    /\ ~ IsBlank(level, x, startY)
                    /\ (x = 0 \/ IsBlank(level, x - 1, startY))}
    IN IF cols = {} THEN findLineStart(level, startY)
       ELSE [x |-> CHOOSE x \in cols : \A c \in cols : x >= c, y |-> startY]

findWordEnd(level, startX, startY) ==
    LET cols == {x \in startX..LevelWidth(level) - 1 :
                    /\ ~ IsBlank(level, x, startY)
                    /\ (x = LevelWidth(level) - 1 \/ IsBlank(level, x + 1, startY))}
    IN IF cols = {} THEN findLineEnd(level, startY)
       ELSE [x |-> CHOOSE x \in cols : \A c \in cols : x <= c, y |-> startY]

\* for (i < count) targetPos = _findNextWordStart(targetPos.x, targetPos.y)
RECURSIVE wordForwardTarget(_, _, _)
wordForwardTarget(level, targetPos, count) ==
    IF count = 0 THEN targetPos
    ELSE wordForwardTarget(level,
             findNextWordStart(level, targetPos.x, targetPos.y), count - 1)

\* for (i < count) { targetPos = _findWordEnd(...); step past it unless last }
RECURSIVE wordEndTarget(_, _, _)
wordEndTarget(level, targetPos, count) ==
    IF count = 0 THEN targetPos
    ELSE LET found == findWordEnd(level, targetPos.x, targetPos.y)
         IN wordEndTarget(level,
                IF count > 1 /\ found.x < LevelWidth(level) - 1
                THEN [found EXCEPT !.x = found.x + 1] ELSE found,
                count - 1)

\* for (i < count) targetPos = _findPreviousWordStart(targetPos.x, targetPos.y)
RECURSIVE wordBackwardTarget(_, _, _)
wordBackwardTarget(level, targetPos, count) ==
    IF count = 0 THEN targetPos
    ELSE wordBackwardTarget(level,
             findPreviousWordStart(level, targetPos.x, targetPos.y), count - 1)

NoAction == [type |-> "null"]

\* requestAction(actionType, targetData, cost): the action request handed
\* back to handleInput.  The Player's budget, from which the request's cost
\* is deducted, is read by no handler of the model and is not part of it
requestAction(actionType, targetData, cost) ==
    [type |-> actionType, target |-> targetData, cost |-> cost]

\* variant: the last row is not clamped to the grid
lineEndY_unclamped(y, count, height) == y + count - 1

\* case 'LINE': endY = Math.min(this.y + count - 1, height - 1)
lineEndY(y, count, height) == Min(y + count - 1, height - 1)

\* _handleDeleteOrChangeMotion(motion, count, baseActionType): the range a
\* motion covers from the cursor; valid is FALSE where the code returns null
motionSpan(level, x, y, motion, count) ==
    LET width == LevelWidth(level)
        height == LevelHeight(level)
        here == [x |-> x, y |-> y]
        span(startX, startY, endX, endY, cost, valid) ==
            [startX |-> startX, startY |-> startY, endX |-> endX, endY |-> endY,
             cost |-> cost, valid |-> valid]
    IN CASE motion = "LINE" ->
              span(0, y, width - 1, lineEndY(y, count, height),
                   10 * count * width, TRUE)
         [] motion = "LEFT" ->
              LET startX == IF count > 0 THEN Max(0, x - count) ELSE x
              IN span(startX, y, x - 1, y, x - startX, startX <= x - 1)
         [] motion = "RIGHT" ->
              LET endX == Min(width - 1, x + count - 1)
              IN span(x, y, endX, y, endX - x + 1, TRUE)
         [] motion = "DOWN" ->
              LET targetLineY == Min(height - 1, y + count)
              IN span(0, y, width - 1, targetLineY,
                      10 * (Abs(targetLineY - y) + 1), TRUE)
         [] motion = "UP" ->
              LET targetLineY == Max(0, y - count)
              IN span(0, targetLineY, width - 1, y,
                      10 * (Abs(targetLineY - y) + 1), TRUE)
         [] motion = "WORD_FORWARD" ->
              LET endX == wordForwardTarget(level, here, count).x - 1
              IN span(x, y, endX, y, 3 * count + Abs(endX - x), TRUE)
         [] motion = "WORD_END" ->
              LET endX == wordEndTarget(level, here, count).x
              IN span(x, y, endX, y, 3 * count + Abs(endX - x), TRUE)
         [] motion = "WORD_BACKWARD" ->
              LET startX == wordBackwardTarget(level, here, count).x
              IN span(startX, y, x - 1, y, 3 * count + Abs(x - 1 - startX),
                      startX <= x - 1)
         [] motion = "LINE_END" ->
              LET endX == findLineEnd(level, y).x
              IN span(x, y, endX, y, 5 + Abs(endX - x), TRUE)
         [] motion = "LINE_START" ->
              LET startX == findLineStart(level, y).x
              IN span(startX, y, x - 1, y, 5 + Abs(x - 1 - startX), startX <= x - 1)
         [] motion = "LINE_FIRST_CHAR" ->
              LET startX == findLineFirstChar(level, y).x
              IN span(startX, y, x - 1, y, 5 + Abs(x - 1 - startX), startX <= x - 1)
         [] OTHER -> span(x, y, x, y, 0, FALSE)

handleDeleteOrChangeMotion(w, motion, count, baseActionType) ==
    IF w.currentLevel = 0 THEN NoAction
    ELSE LET s == motionSpan(w.currentLevel, w.playerX, w.playerY, motion, count)
         IN IF ~ s.valid THEN NoAction
            ELSE requestAction(IF baseActionType = "DELETE" THEN "DELETE_RANGE"
                               ELSE "CHANGE_RANGE",
                               [startX |-> s.startX, startY |-> s.startY,
                                endX |-> s.endX, endY |-> s.endY],
                               s.cost)

\* generatedActions.push(...) of the actions that are not null
pushActions(w, actions) ==
    [w EXCEPT !.generatedActions =
        w.generatedActions \o SelectSeq(actions, LAMBDA a : a # NoAction)]

FEEDBACK(w, feedbackType) ==
    [type |-> "FEEDBACK", feedbackType |-> feedbackType,
     position |-> [x |-> w.playerX, y |-> w.playerY]]

\* handleInput(commands, deltaTime), one command of the loop
Player_handleCommand(w, command) ==
    LET count == IF "count" \in DOMAIN command /\ command.count # 0
                 THEN command.count ELSE 1
        cell == [startX |-> w.playerX, startY |-> w.playerY,
                 endX |-> w.playerX, endY |-> w.playerY]
    IN CASE command.type = "MOVE" ->
              Player_handleMove(w, command.direction, command.count)
         [] command.type = "DELETE_CHAR" ->
              pushActions(w, [i \in 1..count |-> requestAction("DELETE_RANGE", cell, 1)])
         [] command.type \in {"DELETE", "CHANGE"} ->
              pushActions(w, << handleDeleteOrChangeMotion(w, command.motion, count,
                                                           command.type) >>)
         [] command.type = "TYPE_INCORRECT" ->
              pushActions(Player_takeDamage(w, 1), << FEEDBACK(w, command.type) >>)
         [] command.type \in {"TYPE_CORRECT", "TYPE_BACKSPACE", "PHRASE_COMPLETE"} ->
              pushActions(w, << FEEDBACK(w, command.type) >>)
         [] command.type = "EXIT_TYPING" ->
              pushActions(w, << [type |-> "MODE_CHANGE_REQUEST", mode |-> "NORMAL"] >>)
         [] command.type = "REPLACE_CHAR_EXECUTE" ->
              pushActions(w, << requestAction("REPLACE_CHAR",
                                    [x |-> w.playerX, y |-> w.playerY,
                                     char |-> command.char], 0) >>)
         [] OTHER -> w

RECURSIVE Player_handleInput(_, _)
Player_handleInput(w, commands) ==
    IF commands = <<>> THEN w
    ELSE Player_handleInput(Player_handleCommand(w, Head(commands)), Tail(commands))

---------------------------------------------------------------------------
\* The modes: enter(params) and exit() of each state class

\* MenuState.enter: evaluating INPUT_MODE.NORMAL throws when the name is not
\* bound, after the message and setActive(true), before the listener
MenuState_enter(w, params) ==
    LET w1 == showMessage(w, << "Press [Enter] to Start" >>, 0)
        w2 == setActive(w1, TRUE)
        w3 == setMode(w2, INPUT_MODE.NORMAL, <<>>)
    IN IF ~ w.inputModeBound THEN Throw(w2, INPUT_MODE_undefined)
       ELSE registerActionListener(w3, "confirm", "MenuState.confirm")

MenuState_exit(w) ==
    clearMessage(unregisterActionListener(w, "confirm"))

\* LoadingState.enter: remembers the requested level; nothing is ready yet
LoadingState_enter(w, params) ==
    [w EXCEPT !.loadingLevelId = params.levelId, !.levelLoaded = FALSE,
              !.assetsLoaded = FALSE, !.levelData = 0,
              !.levelDataTiles = NoTiles]

LoadingState_exit(w) == w

\* PlayingState.enter, the part that sets the level: with level data the
\* level becomes current, the clock restarts and the player is placed on the
\* level's start tile with full integrity; without it nothing is touched
PlayingState_setLevel(w, params) ==
    IF params.levelData = 0 THEN w
    ELSE [w EXCEPT !.currentLevel = params.levelData,
                   !.currentLevelTiles = w.levelDataTiles,
                   !.elapsedTime = 0,
                   !.playerX = PlayerStart(params.levelData).x,
                   !.playerY = PlayerStart(params.levelData).y,
                   !.integrity = MaxIntegrity,
                   !.playerState = "active"]

\* PlayingState.enter, the part that spawns the level's enemies
PlayingState_spawnEnemies(w, params) ==
    IF params.levelData = 0 THEN w
    ELSE [w EXCEPT !.enemies = EnemySpawns(params.levelData)]

PlayingState_enter(w, params) ==
    LET w1 == PlayingState_setLevel(w, params)
        w2 == [w1 EXCEPT !.enemies = <<>>]
        w3 == PlayingState_spawnEnemies(w2, params)
        w4 == setActive(w3, TRUE)
        w5 == setMode(w4, INPUT_MODE.NORMAL, <<>>)
        w6 == clearCommandBuffer(w5)
    IN IF ~ w.inputModeBound THEN Throw(w4, INPUT_MODE_undefined)
       ELSE registerActionListener(w6, "pause", "PlayingState.pause")

PlayingState_exit(w) ==
    LET w1 == setActive(w, FALSE)
        w2 == unregisterActionListener(w1, "pause")
    IN [w2 EXCEPT !.enemies = <<>>]

PausedState_enter(w, params) ==
    LET w1 == setActive(w, TRUE)
        w2 == clearCommandBuffer(w1)
        w3 == showMessage(w2, << "PAUSED - Press [Escape] to Resume" >>, 0)
    IN registerActionListener(w3, "unpause", "PausedState.unpause")

PausedState_exit(w) ==
    setActive(clearMessage(unregisterActionListener(w, "unpause")), TRUE)

GameOverState_enter(w, params) ==
    LET w1 == [w EXCEPT !.goFinalScore = params.score,                \* || 0
                        !.goLevelId = IF params.levelId = 0 THEN 1 ELSE params.levelId]
        w2 == showMessage(w1, << "Integrity Failure! [Enter]=Retry Lvl ", w1.goLevelId,
                                  ", [M]=Menu" >>, 0)
        w3 == setActive(w2, TRUE)
        w4 == registerActionListener(w3, "confirm", "GameOverState.confirm")
    IN registerActionListener(w4, "menu", "GameOverState.menu")

GameOverState_exit(w) ==
    clearMessage(unregisterActionListener(unregisterActionListener(w, "confirm"), "menu"))

LevelCompleteState_enter(w, params) ==
    LET w1 == [w EXCEPT !.lcFinalScore = params.score,                \* || 0
                        !.lcNextLevelId = params.nextLevelId,         \* || null
                        !.lcCurrentLevelId = params.levelId]          \* || 0
        w2 == showMessage(w1,
                  IF w1.lcNextLevelId # 0
                  THEN << "Proceed to Stream ", w1.lcNextLevelId, "? [Enter]=Yes, [M]=Menu" >>
                  ELSE << "All Streams Complete! [M]=Menu" >>, 0)
        w3 == setActive(w2, TRUE)
        w4 == registerActionListener(w3, "confirm", "LevelCompleteState.confirm")
    IN registerActionListener(w4, "menu", "LevelCompleteState.menu")

LevelCompleteState_exit(w) ==
    clearMessage(unregisterActionListener(unregisterActionListener(w, "confirm"), "menu"))

\* this.currentState.enter(params), when currentState has an enter method
StateEnter(w, state, params) ==
    CASE state = "MENU" -> MenuState_enter(w, params)
      [] state = "LOADING" -> LoadingState_enter(w, params)
      [] state = "PLAYING" -> PlayingState_enter(w, params)
      [] state = "PAUSED" -> PausedState_enter(w, params)
      [] state = "GAME_OVER" -> GameOverState_enter(w, params)
      [] state = "LEVEL_COMPLETE" -> LevelCompleteState_enter(w, params)
      [] OTHER -> w

\* this.currentState.exit(), when currentState has an exit method
StateExit(w, state) ==
    CASE state = "MENU" -> MenuState_exit(w)
      [] state = "LOADING" -> LoadingState_exit(w)
      [] state = "PLAYING" -> PlayingState_exit(w)
      [] state = "PAUSED" -> PausedState_exit(w)
      [] state = "GAME_OVER" -> GameOverState_exit(w)
      [] state = "LEVEL_COMPLETE" -> LevelCompleteState_exit(w)
      [] OTHER -> w

---------------------------------------------------------------------------
\* StateManager

\* this.states[stateName] is truthy: a mode of that name, or a property the
\* states object inherits
StateDefined(stateName) == stateName \in StateNames \cup InheritedNames

\* this.states[stateName]: the mode object, or the inherited function
StateObject(stateName) ==
    IF stateName \in StateNames THEN stateName ELSE "function"

\* the name and parameters switchTo goes on with after its fallback
FallbackName(stateName) == IF StateDefined(stateName) THEN stateName ELSE "MENU"
FallbackParams(stateName, params) == IF StateDefined(stateName) THEN params ELSE NoParams

Note(w, event) == [w EXCEPT !.lifecycle = Append(w.lifecycle, event)]

switchTo(w, requested, requestedParams) ==
    LET stateName == FallbackName(requested)
        params == FallbackParams(requested, requestedParams)
        w1 == IF w.currentStateName # Null /\ w.currentStateName # stateName
              THEN [w EXCEPT !.previousStateName = w.currentStateName] ELSE w
        w2 == IF w1.currentState \in StateNames
              THEN StateExit(Note(w1, [ev |-> "exit", state |-> w1.currentState]),
                             w1.currentState)
              ELSE w1
        w3 == [w2 EXCEPT !.currentStateName = stateName,
                         !.currentState = StateObject(stateName)]
    IN IF w3.currentState \in StateNames
       THEN StateEnter(Note(w3, [ev |-> "enter", state |-> stateName, params |-> params]),
                       stateName, params)
       ELSE w3

\* variant: a mode is constructed whatever it is given
BaseState_throws_never(given) == FALSE

\* BaseState's constructor throws when a collaborator is missing
BaseState_throws(given) == \E d \in Dependencies : d \notin given

\* new StateManager(dependencies) constructs the six modes, each through
\* BaseState's constructor
StateManager_throws(given) == \E name \in StateNames : BaseState_throws(given)

\* init(initialStateName = 'MENU', initialParams = {})
StateManager_init(w, initialStateName, initialParams) ==
    switchTo([w EXCEPT !.previousStateName = Null], initialStateName, initialParams)

\* the message of the error initializeGame catches, "" when none is thrown
initializationError(w) ==
    IF StateManager_throws(w.dependencies) THEN "missing core dependencies"
    ELSE StateManager_init(w, "MENU", NoParams).thrown

\* initializeGame, from "new StateManager" on: an error there skips
\* stateManager.init() and gameLoop.start(), an error in init() skips
\* gameLoop.start(); the catch block keeps either from leaving the function
initializeGame(w) ==
    IF StateManager_throws(w.dependencies) THEN w
    ELSE LET w1 == StateManager_init(w, "MENU", NoParams)
         IN IF Threw(w1) THEN [w1 EXCEPT !.thrown = ""]
            ELSE [w1 EXCEPT !.gameLoop = GameLoop_start(@)]

---------------------------------------------------------------------------
\* The callbacks the modes register with registerActionListener

Callback(w, callback) ==
    CASE callback = "MenuState.confirm" ->
            switchTo(w, "LOADING", [NoParams EXCEPT !.levelId = 1])
      [] callback = "PlayingState.pause" -> switchTo(w, "PAUSED", NoParams)
      [] callback = "PausedState.unpause" -> switchTo(w, "PLAYING", NoParams)
      [] callback = "GameOverState.confirm" ->
            switchTo(w, "LOADING", [NoParams EXCEPT !.levelId = w.goLevelId])
      [] callback = "GameOverState.menu" -> switchTo(w, "MENU", NoParams)
      [] callback = "LevelCompleteState.confirm" ->
            IF w.lcNextLevelId # 0
            THEN switchTo(w, "LOADING", [NoParams EXCEPT !.levelId = w.lcNextLevelId])
            ELSE switchTo(w, "MENU", NoParams)
      [] callback = "LevelCompleteState.menu" -> switchTo(w, "MENU", NoParams)

\* this.actionListeners.get(actionName)()
InvokeListener(w, actionName) == Callback(w, w.actionListeners[actionName])

---------------------------------------------------------------------------
\* InputHandler: the key handlers

Operators == {"d", "c", "y"}

typeMap == "d" :> "DELETE" @@ "c" :> "CHANGE" @@ "y" :> "YANK"

motionMap ==
    "h" :> "LEFT" @@ "j" :> "DOWN" @@ "k" :> "UP" @@ "l" :> "RIGHT" @@
    "w" :> "WORD_FORWARD" @@ "b" :> "WORD_BACKWARD" @@ "e" :> "WORD_END" @@
    "$" :> "LINE_END" @@ "^" :> "LINE_FIRST_CHAR"

simpleCommandMap ==
    "x" :> "DELETE_CHAR" @@ "r" :> "REPLACE_CHAR_START" @@ "p" :> "PASTE_AFTER" @@
    "P" :> "PASTE_BEFORE" @@ "u" :> "UNDO"

\* let count = parseInt(this.numericPrefix || '1', 10)
CountOf(prefix) == parseInt(IF prefix = <<>> THEN << "1" >> ELSE prefix)

\* a variant of the callback that abandons the pending operator
TimeoutCallback_clearsBuffer(w, key) ==
    IF w.commandBuffer = key THEN [w EXCEPT !.commandBuffer = ""] ELSE w

\* the body of the setTimeout callback an operator key schedules: it compares
\* the buffer with the key and does nothing either way
TimeoutCallback(w, key) == IF w.commandBuffer = key THEN w ELSE w

\* the first press of an operator key: the buffer holds it, a callback is scheduled
armOperator(w, key) ==
    [w EXCEPT !.commandBuffer = key,
              !.pendingTimeouts = Append(w.pendingTimeouts, key)]

\* "Handle Simple Commands / Motions": the command (or none) and the buffer
\* the block leaves behind
motionOrSimpleCommand(buffer, key, count) ==
    IF key \in DOMAIN motionMap
    THEN [command |-> IF buffer \in Operators
                      THEN [type |-> typeMap[buffer], motion |-> motionMap[key],
                            count |-> count]
                      ELSE [type |-> "MOVE", direction |-> motionMap[key],
                            count |-> count],
          commandBuffer |-> ""]
    ELSE IF key \in DOMAIN simpleCommandMap /\ buffer = ""
    THEN IF simpleCommandMap[key] = "REPLACE_CHAR_START"
         THEN [command |-> NoCommand, commandBuffer |-> "r"]
         ELSE [command |-> [type |-> simpleCommandMap[key], count |-> count],
               commandBuffer |-> buffer]
    ELSE IF buffer = "r" /\ KeyLength(key) = 1
    THEN [command |-> [type |-> "REPLACE_CHAR_EXECUTE", char |-> key],
          commandBuffer |-> ""]
    ELSE [command |-> NoCommand, commandBuffer |-> buffer]

\* a variant of the reset that keeps the numeric prefix
queueAndReset_keepsPrefix(w, command) ==
    [queueCommand(w, command) EXCEPT !.commandBuffer = ""]

\* "Queue Command and Reset", the branch taken when a command was built
queueAndReset(w, command) ==
    [queueCommand(w, command) EXCEPT !.commandBuffer = "", !.numericPrefix = <<>>]

\* "Queue Command and Reset", the branch taken when no command was built:
\* the buffer is reset unless an operator or r is pending or the key is a digit
resetIfInvalid(w, buffer, key) ==
    IF buffer \notin {"d", "c", "y", "r"} /\ key \notin Digits09
    THEN [w EXCEPT !.commandBuffer = "", !.numericPrefix = <<>>]
    ELSE [w EXCEPT !.commandBuffer = buffer]

\* variant: Escape clears the buffer whether or not a pause listener is registered
handleEscape_noListener(w) ==
    queueCommand([w EXCEPT !.commandBuffer = "", !.numericPrefix = <<>>],
                 [type |-> "CLEAR_BUFFER"])

\* the Escape branch of _handleNormalMode
handleEscape(w) ==
    IF "pause" \in DOMAIN w.actionListeners
    THEN LET w1 == InvokeListener(w, "pause")
         IN IF Threw(w1) THEN w1
            ELSE [w1 EXCEPT !.commandBuffer = "", !.numericPrefix = <<>>]
    ELSE queueCommand([w EXCEPT !.commandBuffer = "", !.numericPrefix = <<>>],
                      [type |-> "CLEAR_BUFFER"])

\* variant: 0 always counts as a prefix digit
extendsPrefix_zeroStarts(w, key) ==
    key \in Digits09 /\ w.commandBuffer = ""

\* the two numeric-prefix tests: 1-9 starts or extends, 0 only extends
extendsPrefix(w, key) ==
    \/ key \in Digits19 /\ w.commandBuffer = ""
    \/ key = "0" /\ w.commandBuffer = "" /\ w.numericPrefix # <<>>

handleNormalMode(w, key) ==
    LET count == CountOf(w.numericPrefix)
        \* '0' as a motion when it is not part of a prefix
        zero == IF key = "0" /\ w.commandBuffer = "" /\ w.numericPrefix = <<>>
                THEN [type |-> "MOVE_TO", target |-> "LINE_START", count |-> 1]
                ELSE NoCommand
        \* dd, cc, yy
        doubled == IF key \in Operators /\ w.commandBuffer = key
                   THEN [command |-> [type |-> typeMap[key], motion |-> "LINE",
                                      count |-> count],
                         commandBuffer |-> ""]
                   ELSE [command |-> zero, commandBuffer |-> w.commandBuffer]
        built == IF doubled.command = NoCommand
                 THEN motionOrSimpleCommand(doubled.commandBuffer, key, count)
                 ELSE doubled
    IN IF key = "Escape" THEN handleEscape(w)
       ELSE IF extendsPrefix(w, key)
            THEN [w EXCEPT !.numericPrefix = Append(w.numericPrefix, key)]
       ELSE IF key \in Operators /\ w.commandBuffer = ""
            THEN armOperator(w, key)
       ELSE IF built.command # NoCommand
            THEN queueAndReset(w, built.command)
       ELSE resetIfInvalid(w, built.commandBuffer, key)

\* variant: every key is compared with the first character of the phrase
expectedChar_first(w) == w.targetTypingPhrase[1]

\* const expectedChar = this.targetTypingPhrase[this.currentTypingIndex]
expectedChar(w) == w.targetTypingPhrase[w.currentTypingIndex + 1]

handleTypingMode(w, key) ==
    IF key = "Escape" THEN queueCommand(w, [type |-> "EXIT_TYPING"])
    ELSE IF key = "Backspace"
    THEN IF w.currentTypingIndex > 0
         THEN queueCommand([w EXCEPT !.currentTypingIndex = w.currentTypingIndex - 1],
                           [type |-> "TYPE_BACKSPACE", index |-> w.currentTypingIndex - 1])
         ELSE w
    ELSE IF KeyLength(key) > 1 THEN w
    ELSE IF w.currentTypingIndex < Len(w.targetTypingPhrase)
    THEN IF key = expectedChar(w)
         THEN LET w1 == queueCommand(w, [type |-> "TYPE_CORRECT", char |-> key,
                                         index |-> w.currentTypingIndex])
                  w2 == [w1 EXCEPT !.currentTypingIndex = w.currentTypingIndex + 1]
              IN IF w2.currentTypingIndex = Len(w2.targetTypingPhrase)
                 THEN queueCommand(w2, [type |-> "PHRASE_COMPLETE"])
                 ELSE w2
         ELSE queueCommand(w, [type |-> "TYPE_INCORRECT", char |-> key,
                               expected |-> expectedChar(w),
                               index |-> w.currentTypingIndex])
    ELSE w

\* variant: keys are handled whether or not the handler is active
onKeyDown_whileInactive(w, key) ==
    IF w.mode = INPUT_MODE.NORMAL THEN handleNormalMode(w, key)
    ELSE IF w.mode = INPUT_MODE.TYPING THEN handleTypingMode(w, key)
    ELSE w

\* _onKeyDown(event), with key = event.key
onKeyDown(w, key) ==
    IF ~ w.active THEN w
    ELSE IF w.mode = INPUT_MODE.NORMAL THEN handleNormalMode(w, key)
    ELSE IF w.mode = INPUT_MODE.TYPING THEN handleTypingMode(w, key)
    ELSE w

---------------------------------------------------------------------------
\* update(deltaTime) of each mode

IsConfirm(command) == command.type = "CONFIRM"
IsMenuKey(command) ==
    command.type = "KEY" /\ "key" \in DOMAIN command /\ command.key = "m"

\* for (const command of commands) if (...) { switchTo(...); break; }
HasConfirm(commands) == \E i \in 1..Len(commands) : IsConfirm(commands[i])
HasMenuKey(commands) == \E i \in 1..Len(commands) : IsMenuKey(commands[i])

MenuState_update(w) ==
    LET commands == getCommandsResult(w)
        w1 == getCommands(w)
    IN IF HasConfirm(commands)
       THEN switchTo(w1, "LOADING", [NoParams EXCEPT !.levelId = 1])
       ELSE w1

LoadingState_update(w) ==
    IF w.levelLoaded /\ w.assetsLoaded
    THEN switchTo(w, "PLAYING", [NoParams EXCEPT !.levelData = w.levelData])
    ELSE w

PausedState_update(w) == getCommands(w)

GameOverState_update(w) ==
    LET commands == getCommandsResult(w)
        w1 == getCommands(w)
    IN IF HasMenuKey(commands) THEN switchTo(w1, "MENU", NoParams) ELSE w1

LevelCompleteState_update(w) ==
    LET commands == getCommandsResult(w)
        w1 == getCommands(w)
    IN IF HasMenuKey(commands) THEN switchTo(w1, "MENU", NoParams) ELSE w1

\* getTileAt(x, y): the tile's type, or null outside the grid or without a level
getTileTypeAt(w, x, y) ==
    IF w.currentLevel = 0 \/ x < 0 \/ x >= LevelWidth(w.currentLevel)
          \/ y < 0 \/ y >= LevelHeight(w.currentLevel)
    THEN Null
    ELSE tileOf(w.currentLevel, w.currentLevelTiles.tiles, x, y).type

\* updateGridTile(x, y, newTileData), for every (x, y) of cells: the data is
\* merged into the tile of the current level object, which is LevelManager's
\* own when isDefinition
updateGridTiles(w, cells, newTileData) ==
    LET merged(p) ==
            LET old == tileOf(w.currentLevel, w.currentLevelTiles.tiles, p[1], p[2])
            IN [char |-> IF "char" \in DOMAIN newTileData
                         THEN newTileData.char ELSE old.char,
                type |-> IF "type" \in DOMAIN newTileData
                         THEN newTileData.type ELSE old.type]
        put(changed) == [p \in DOMAIN changed \cup cells |->
                            IF p \in cells THEN merged(p) ELSE changed[p]]
    IN [w EXCEPT !.currentLevelTiles.tiles = put(@),
                 !.levels = IF w.currentLevelTiles.isDefinition
                            THEN [@ EXCEPT ![w.currentLevel] = put(@)]
                            ELSE @]

updateGridTile(w, x, y, newTileData) ==
    updateGridTiles(w, {<< x, y >>}, newTileData)

IsRangeAction(action) == action.type \in {"DELETE_RANGE", "CHANGE_RANGE"}

\* damage a range action does to an enemy on a tile of the range
RangeDamage == 5
\* score a range action awards per corrupted tile it clears
RangeScore == 5

\* index of the enemy the inner loop finds at (x, y): the last one, 0 if none
enemyAt(w, x, y) ==
    LET found == {i \in 1..Len(w.enemies) : w.enemies[i].x = x /\ w.enemies[i].y = y}
    IN IF found = {} THEN 0 ELSE CHOOSE i \in found : \A j \in found : i >= j

\* variant: the inner loop runs over the whole row
rangeCells_wholeRows(w, minX, maxX, minY, maxY) ==
    {p \in {<< x, y >> : x \in 0..(LevelWidth(w.currentLevel) - 1), y \in minY..maxY} :
        ~ (p[2] < 0 \/ p[2] >= LevelHeight(w.currentLevel))}

\* the coordinates the two loops visit and do not skip at the bounds check
rangeCells(w, minX, maxX, minY, maxY) ==
    {p \in {<< x, y >> : x \in minX..maxX, y \in minY..maxY} :
        ~ (p[2] < 0 \/ p[2] >= LevelHeight(w.currentLevel)
             \/ p[1] < 0 \/ p[1] >= LevelWidth(w.currentLevel))}

\* variant: the loops run from the start corner
rangeMin_start(start, end) == start

\* the corners the loops run between
rangeMin(start, end) == Min(start, end)
rangeMax(start, end) == Max(start, end)

\* variant: every tile that is not a pathway is replaced
clearedTypes_all == {"corrupted", "barrier", "exit-node", "data-node"}

\* the tile types the tile branch replaces with a pathway
clearedTypes == {"corrupted"}

\* variant: an enemy on the tile does not stop the tile action
enemyHit_never(w, x, y) == FALSE

\* enemyHit: an enemy stands on (x, y)
enemyHit(w, x, y) == enemyAt(w, x, y) # 0

\* handleRangeAction(targetRange, cost, actionType).  The iterations of the
\* loops touch one coordinate each (its tile, and the enemy found on it), so
\* their effects are taken together: every visited coordinate with an enemy
\* damages the enemy found there, every other visited corrupted tile becomes
\* a pathway and adds RangeScore.
handleRangeAction(w, targetRange, cost, actionType) ==
    IF w.currentLevel = 0 THEN w
    ELSE LET minX == rangeMin(targetRange.startX, targetRange.endX)
             maxX == rangeMax(targetRange.startX, targetRange.endX)
             minY == rangeMin(targetRange.startY, targetRange.endY)
             maxY == rangeMax(targetRange.startY, targetRange.endY)
             cells == rangeCells(w, minX, maxX, minY, maxY)
             cleared == {p \in cells :
                            /\ ~ enemyHit(w, p[1], p[2])
                            /\ getTileTypeAt(w, p[1], p[2]) \in clearedTypes}
             damaged == [i \in 1..Len(w.enemies) |->
                            IF /\ << w.enemies[i].x, w.enemies[i].y >> \in cells
                               /\ enemyAt(w, w.enemies[i].x, w.enemies[i].y) = i
                            THEN Enemy_takeDamage(w.enemies[i], RangeDamage)
                            ELSE w.enemies[i]]
             scoreGained == RangeScore * Cardinality(cleared)
             w1 == updateGridTiles([w EXCEPT !.enemies = damaged], cleared,
                                   [char |-> ".", type |-> "pathway"])
         IN IF scoreGained > 0
            THEN showMessage([w1 EXCEPT !.score = @ + scoreGained],
                             << "Cleared ", scoreGained \div 5, " nodes!" >>,
                             1000)
            ELSE w1

\* processPlayerActions(actions), one action of the loop
processPlayerAction(w, action) ==
    CASE action.type = "DELETE_RANGE" ->
            handleRangeAction(w, action.target, action.cost, action.type)
      [] action.type = "CHANGE_RANGE" ->
            LET w1 == handleRangeAction(w, action.target, action.cost, action.type)
            IN IF ~ w.inputModeBound THEN Throw(w1, INPUT_MODE_undefined)
               ELSE setMode(w1, INPUT_MODE.TYPING, <<>>)
      [] action.type = "REPLACE_CHAR" ->
            LET type == getTileTypeAt(w, action.target.x, action.target.y)
            IN IF type # Null /\ type # "barrier"
               THEN updateGridTile(w, action.target.x, action.target.y,
                                   [char |-> action.target.char])
               ELSE w
      [] OTHER -> w

\* variant: the actions are dropped
processPlayerActions_none(w, actions) == w

\* processPlayerActions(actions): in the class as listed the method in force
\* is the second one, whose body is a comment, and the actions are dropped;
\* with the first body in force each action is processed in turn
RECURSIVE processPlayerActions(_, _)
processPlayerActions(w, actions) ==
    IF actions = <<>> \/ Threw(w) \/ w.processPlayerActionsElided THEN w
    ELSE processPlayerActions(processPlayerAction(w, Head(actions)), Tail(actions))

\* "Update Enemies & Check Defeat": every enemy is updated with the player's
\* position; defeated ones leave the roster
IsAlive(e) == ~ isDefeated(e)
PlayingState_updateEnemies(w, deltaTime) ==
    [w EXCEPT !.enemies =
        SelectSeq([i \in 1..Len(w.enemies) |->
                      Chaser_update(w.enemies[i], deltaTime, w.playerX, w.playerY)],
                  IsAlive)]

\* damage an enemy does to the player whose tile it shares
CollisionDamage == 1

\* "Check Collisions"
RECURSIVE PlayingState_checkCollisions(_, _)
PlayingState_checkCollisions(w, i) ==
    IF i > Len(w.enemies) THEN w
    ELSE PlayingState_checkCollisions(
            IF w.enemies[i].x = w.playerX /\ w.enemies[i].y = w.playerY
            THEN Player_takeDamage(w, CollisionDamage) ELSE w,
            i + 1)

\* variant: the level after the next is proposed
PlayingState_checkWinLoss_skipsLevel(w) ==
    IF getTileTypeAt(w, w.playerX, w.playerY) = "exit-node"
    THEN switchTo(w, "LEVEL_COMPLETE",
             [NoParams EXCEPT !.score = w.score, !.levelId = w.currentLevel,
                              !.nextLevelId = w.currentLevel + 2])
    ELSE w

\* "Check Win/Loss Conditions"
PlayingState_checkWinLoss(w) ==
    LET id == w.currentLevel                                    \* currentLevel?.id
        w1 == IF w.playerState = "defeated"
              THEN switchTo(w, "GAME_OVER",
                        [NoParams EXCEPT !.score = w.score,
                                         !.levelId = IF id = 0 THEN 1 ELSE id])
              ELSE w
    IN IF getTileTypeAt(w1, w1.playerX, w1.playerY) = "exit-node"
       THEN switchTo(w1, "LEVEL_COMPLETE",
                [NoParams EXCEPT !.score = w1.score, !.levelId = id,
                                 !.nextLevelId = id + 1])
       ELSE w1

PlayingState_update(w, deltaTime) ==
    LET w1 == [w EXCEPT !.elapsedTime = w.elapsedTime + deltaTime]
        commands == getCommandsResult(w1)
        w2 == Player_handleInput(getCommands(w1), commands)
        w2a == processPlayerActions(w2, w2.generatedActions)
        w3 == PlayingState_updateEnemies(w2a, deltaTime)
        w4 == PlayingState_checkCollisions(w3, 1)
    IN IF Threw(w2a) THEN w2a ELSE PlayingState_checkWinLoss(w4)

\* StateManager.update(deltaTime): the current mode's update
StateManager_update(w, deltaTime) ==
    CASE w.currentState = "MENU" -> MenuState_update(w)
      [] w.currentState = "LOADING" -> LoadingState_update(w)
      [] w.currentState = "PLAYING" -> PlayingState_update(w, deltaTime)
      [] w.currentState = "PAUSED" -> PausedState_update(w)
      [] w.currentState = "GAME_OVER" -> GameOverState_update(w)
      [] w.currentState = "LEVEL_COMPLETE" -> LevelCompleteState_update(w)
      [] OTHER -> w

---------------------------------------------------------------------------
\* The world the handlers work on, and its commit to the variables

W == [active |-> active, mode |-> mode, commandBuffer |-> commandBuffer,
      numericPrefix |-> numericPrefix, targetTypingPhrase |-> targetTypingPhrase,
      currentTypingIndex |-> currentTypingIndex, commandQueue |-> commandQueue,
      actionListeners |-> actionListeners, pendingTimeouts |-> pendingTimeouts,
      currentState |-> currentState, currentStateName |-> currentStateName,
      previousStateName |-> previousStateName, loadingLevelId |-> loadingLevelId,
      levelLoaded |-> levelLoaded, assetsLoaded |-> assetsLoaded,
      levelData |-> levelData, lmCurrentLevelId |-> lmCurrentLevelId,
      levels |-> levels, levelDataTiles |-> levelDataTiles,
      currentLevelTiles |-> currentLevelTiles,
      currentLevel |-> currentLevel, elapsedTime |-> elapsedTime,
      enemies |-> enemies, playerX |-> playerX, playerY |-> playerY,
      integrity |-> integrity, playerState |-> playerState, score |-> score,
      goFinalScore |-> goFinalScore, goLevelId |-> goLevelId,
      lcFinalScore |-> lcFinalScore, lcNextLevelId |-> lcNextLevelId,
      lcCurrentLevelId |-> lcCurrentLevelId,
      statusMessageElement |-> statusMessageElement,
      statusMessage |-> statusMessage,
      messageTimeoutId |-> messageTimeoutId, messageTimers |-> messageTimers,
      gameLoop |-> gameLoop, dependencies |-> dependencies,
      inputModeBound |-> inputModeBound,
      processPlayerActionsElided |-> processPlayerActionsElided, thrown |-> "",
      emitted |-> <<>>, generatedActions |-> <<>>, lifecycle |-> <<>>]

NoArm == [key |-> "", prefix |-> <<>>, timerRan |-> FALSE]
NoSnapshot == [valid |-> FALSE, elapsedTime |-> 0, enemies |-> <<>>, x |-> 0, y |-> 0]

\* what the operation found: the fields it may change, as they were before it
\* the digit 1-9 the key event just handled delivered while an operator was
\* pending with no count yet, "" otherwise
DigitAfterOperator ==
    IF /\ hist.op = "key" /\ hist.key \in Digits19
       /\ hist.preActive /\ hist.preMode = INPUT_MODE.NORMAL
       /\ hist.preBuffer \in Operators /\ hist.prePrefix = <<>>
       /\ commandBuffer = hist.preBuffer
    THEN hist.key
    ELSE ""

Before(op, key, params) ==
    [op |-> op, key |-> key, params |-> params,
     preState |-> currentStateName, preActive |-> active, preMode |-> mode,
     preBuffer |-> commandBuffer, prePrefix |-> numericPrefix,
     preArmed |-> opArmed, preListeners |-> DOMAIN actionListeners,
     preQueue |-> commandQueue, preDigit |-> DigitAfterOperator,
     preIndex |-> currentTypingIndex,
     preTiles |-> currentLevelTiles.tiles, preLevels |-> levels,
     preEnemies |-> enemies, preScore |-> score, preX |-> playerX, preY |-> playerY,
     preMessage |-> statusMessage, preTimers |-> messageTimers]

\* the operator key the last key event armed, and whether a scheduled
\* callback has run since
Armed(w, op, key) ==
    IF op = "key"
    THEN IF Len(w.pendingTimeouts) > Len(pendingTimeouts)
         THEN [key |-> key, prefix |-> numericPrefix, timerRan |-> FALSE]
         ELSE NoArm
    ELSE IF op = "timer"
    THEN IF opArmed = NoArm THEN NoArm ELSE [opArmed EXCEPT !.timerRan = TRUE]
    ELSE IF op = "getCommands" THEN opArmed
    ELSE NoArm

\* the Playing mode's data at the moment a pause left it, kept while PAUSED
\* is current and through the operation that leaves PAUSED
Snapshot(w) ==
    IF currentStateName = "PLAYING" /\ w.currentStateName = "PAUSED"
    THEN [valid |-> TRUE, elapsedTime |-> elapsedTime, enemies |-> enemies,
          x |-> playerX, y |-> playerY]
    ELSE IF currentStateName = "PAUSED" THEN pauseSnapshot
    ELSE NoSnapshot

Commit(world, op, key, params) ==
    \E w \in {world} :
        /\ active' = w.active
        /\ mode' = w.mode
        /\ commandBuffer' = w.commandBuffer
        /\ numericPrefix' = w.numericPrefix
        /\ targetTypingPhrase' = w.targetTypingPhrase
        /\ currentTypingIndex' = w.currentTypingIndex
        /\ commandQueue' = w.commandQueue
        /\ actionListeners' = w.actionListeners
        /\ pendingTimeouts' = w.pendingTimeouts
        /\ currentState' = w.currentState
        /\ currentStateName' = w.currentStateName
        /\ previousStateName' = w.previousStateName
        /\ loadingLevelId' = w.loadingLevelId
        /\ levelLoaded' = w.levelLoaded
        /\ assetsLoaded' = w.assetsLoaded
        /\ levelData' = w.levelData
        /\ lmCurrentLevelId' = w.lmCurrentLevelId
        /\ levels' = w.levels
        /\ levelDataTiles' = w.levelDataTiles
        /\ currentLevelTiles' = w.currentLevelTiles
        /\ currentLevel' = w.currentLevel
        /\ elapsedTime' = w.elapsedTime
        /\ enemies' = w.enemies
        /\ playerX' = w.playerX
        /\ playerY' = w.playerY
        /\ integrity' = w.integrity
        /\ playerState' = w.playerState
        /\ score' = w.score
        /\ goFinalScore' = w.goFinalScore
        /\ goLevelId' = w.goLevelId
        /\ lcFinalScore' = w.lcFinalScore
        /\ lcNextLevelId' = w.lcNextLevelId
        /\ lcCurrentLevelId' = w.lcCurrentLevelId
        /\ statusMessageElement' = w.statusMessageElement
        /\ statusMessage' = w.statusMessage
        /\ messageTimeoutId' = w.messageTimeoutId
        /\ messageTimers' = w.messageTimers
        /\ gameLoop' = w.gameLoop
        /\ dependencies' = w.dependencies
        /\ inputModeBound' = w.inputModeBound
        /\ processPlayerActionsElided' = w.processPlayerActionsElided
        /\ thrown' = w.thrown
        /\ emitted' = w.emitted
        /\ generatedActions' = w.generatedActions
        /\ lifecycle' = w.lifecycle
        /\ hist' = Before(op, key, params)
        /\ opArmed' = Armed(w, op, key)
        /\ pauseSnapshot' = Snapshot(w)

---------------------------------------------------------------------------
\* Initial state: initializeGame has constructed the InputHandler, the
\* LevelManager, the Player and the StateManager; init() has not run yet

\* the objects as initializeGame's constructors leave them, in a build of
\* stateManager.js where INPUT_MODE is bound or is not, and where the
\* processPlayerActions in force is the elided one of line 216 or is not
Constructed(build) ==
    [active |-> TRUE,
     mode |-> INPUT_MODE.NORMAL,
     commandBuffer |-> "",
     numericPrefix |-> <<>>,
     targetTypingPhrase |-> <<>>,
     currentTypingIndex |-> 0,
     commandQueue |-> <<>>,
     actionListeners |-> <<>>,
     pendingTimeouts |-> <<>>,
     currentState |-> Null,
     currentStateName |-> Null,
     previousStateName |-> Null,
     loadingLevelId |-> 0,
     levelLoaded |-> FALSE,
     assetsLoaded |-> FALSE,
     levelData |-> 0,
     lmCurrentLevelId |-> 0,
     levels |-> [id \in LevelIds |-> <<>>],
     levelDataTiles |-> NoTiles,
     currentLevelTiles |-> NoTiles,
     currentLevel |-> 0,
     elapsedTime |-> 0,
     enemies |-> <<>>,
     playerX |-> 0,
     playerY |-> 0,
     integrity |-> MaxIntegrity,
     playerState |-> "active",
     score |-> 0,
     goFinalScore |-> 0,
     goLevelId |-> 1,
     lcFinalScore |-> 0,
     lcNextLevelId |-> 0,
     lcCurrentLevelId |-> 0,
     statusMessageElement |-> build.statusMessageElement,
     statusMessage |-> <<>>,
     messageTimeoutId |-> 0,
     messageTimers |-> {},
     gameLoop |-> GameLoop_constructor,
     dependencies |-> Dependencies,
     inputModeBound |-> build.inputModeBound,
     processPlayerActionsElided |-> build.processPlayerActionsElided,
     thrown |-> "",
     emitted |-> <<>>,
     generatedActions |-> <<>>,
     lifecycle |-> <<>>]

\* the state in which the objects are as in w and no operation has run yet
Start(w) ==
    /\ active = w.active
    /\ mode = w.mode
    /\ commandBuffer = w.commandBuffer
    /\ numericPrefix = w.numericPrefix
    /\ targetTypingPhrase = w.targetTypingPhrase
    /\ currentTypingIndex = w.currentTypingIndex
    /\ commandQueue = w.commandQueue
    /\ actionListeners = w.actionListeners
    /\ pendingTimeouts = w.pendingTimeouts
    /\ currentState = w.currentState
    /\ currentStateName = w.currentStateName
    /\ previousStateName = w.previousStateName
    /\ loadingLevelId = w.loadingLevelId
    /\ levelLoaded = w.levelLoaded
    /\ assetsLoaded = w.assetsLoaded
    /\ levelData = w.levelData
    /\ lmCurrentLevelId = w.lmCurrentLevelId
    /\ levels = w.levels
    /\ levelDataTiles = w.levelDataTiles
    /\ currentLevelTiles = w.currentLevelTiles
    /\ currentLevel = w.currentLevel
    /\ elapsedTime = w.elapsedTime
    /\ enemies = w.enemies
    /\ playerX = w.playerX
    /\ playerY = w.playerY
    /\ integrity = w.integrity
    /\ playerState = w.playerState
    /\ score = w.score
    /\ goFinalScore = w.goFinalScore
    /\ goLevelId = w.goLevelId
    /\ lcFinalScore = w.lcFinalScore
    /\ lcNextLevelId = w.lcNextLevelId
    /\ lcCurrentLevelId = w.lcCurrentLevelId
    /\ statusMessageElement = w.statusMessageElement
    /\ statusMessage = w.statusMessage
    /\ messageTimeoutId = w.messageTimeoutId
    /\ messageTimers = w.messageTimers
    /\ gameLoop = w.gameLoop
    /\ dependencies = w.dependencies
    /\ inputModeBound = w.inputModeBound
    /\ processPlayerActionsElided = w.processPlayerActionsElided
    /\ thrown = w.thrown
    /\ emitted = w.emitted
    /\ generatedActions = w.generatedActions
    /\ lifecycle = w.lifecycle
    /\ hist = [op |-> "construct", key |-> "", params |-> NoParams,
               preState |-> Null, preActive |-> TRUE, preMode |-> INPUT_MODE.NORMAL,
               preBuffer |-> "", prePrefix |-> <<>>, preArmed |-> NoArm,
               preListeners |-> {}, preQueue |-> <<>>, preDigit |-> "",
               preIndex |-> 0, preTiles |-> w.currentLevelTiles.tiles,
               preLevels |-> w.levels, preEnemies |-> w.enemies,
               preScore |-> w.score, preX |-> w.playerX, preY |-> w.playerY,
               preMessage |-> w.statusMessage, preTimers |-> w.messageTimers]
    /\ opArmed = NoArm
    /\ pauseSnapshot = NoSnapshot

Init == \E build \in Builds : Start(Constructed(build))

---------------------------------------------------------------------------
\* Inputs

\* keys of the game-level specification
GameKeys == {"Escape", "Enter", "l", "9"}

\* keys of the parser-level specification: every motion, operator and simple
\* command key, two digits, the named keys and a plain letter
ParserKeys ==
    {"h", "j", "k", "l", "w", "b", "e", "0", "^", "$", "d", "c", "y",
     "x", "r", "p", "P", "u", "2", "Escape", "Enter", "Backspace", "Shift", "a"}

\* the action names the modes register listeners under
ActionNames == {"confirm", "pause", "unpause", "menu"}

\* the phrase text-entry mode is entered with
TypingPhrase == << "a", "b" >>

\* switchTo requests with names that are not modes (one of them a name the
\* states object inherits from Object.prototype), made by a collaborator
\* through the exposed surface
SwitchRequests ==
    { [name |-> "BOGUS", params |-> [NoParams EXCEPT !.levelId = 2]],
      [name |-> "toString", params |-> NoParams] }

---------------------------------------------------------------------------
\* Actions

\* stateManager.init(), called once by initializeGame
InitGame ==
    /\ currentStateName = Null
    /\ hist.op = "construct"
    /\ Commit(StateManager_init(W, "MENU", NoParams), "init", "MENU", NoParams)

\* a keydown event reaches the InputHandler.  Keys come while fewer than
\* MaxQueue commands are queued, and a key that would schedule a callback
\* comes only while fewer than MaxTimeouts are pending
KeyDown(key) ==
    /\ Len(commandQueue) < MaxQueue
    /\ key \in Digits09 => Len(numericPrefix) < MaxPrefixLen
    /\ (key \in Operators /\ commandBuffer = "") => Len(pendingTimeouts) < MaxTimeouts
    /\ Commit(onKeyDown(W, key), "key", key, NoParams)

\* the oldest scheduled callback runs
TimerFire ==
    /\ pendingTimeouts # <<>>
    /\ Commit(TimeoutCallback([W EXCEPT !.pendingTimeouts = Tail(pendingTimeouts)],
                              Head(pendingTimeouts)),
              "timer", Head(pendingTimeouts), NoParams)

\* stateManager.update(deltaTime) is called; the frame callback of GameLoop
\* that calls it in the started game is LoopFrame and GameFrame
Frame ==
    /\ currentStateName # Null
    /\ currentStateName = "PLAYING" => elapsedTime < MaxFrames * DeltaTime
    /\ Commit(StateManager_update(W, DeltaTime), "update", "", NoParams)

\* the level and the assets LoadingState asked for have arrived
LoadingReady ==
    /\ currentStateName = "LOADING"
    /\ ~ levelLoaded
    /\ loadingLevelId \in LevelIds
    /\ Commit([loadLevel(W, loadingLevelId) EXCEPT
                   !.levelData = loadLevelResult(loadingLevelId),
                   !.levelDataTiles = loadLevelTiles(W, loadingLevelId),
                   !.levelLoaded = TRUE, !.assetsLoaded = TRUE],
              "ready", "", NoParams)

\* a collaborator calls stateManager.switchTo(name, params)
SwitchTo(request) ==
    /\ currentStateName # Null
    /\ Commit(switchTo(W, request.name, request.params),
              "switchTo", request.name, request.params)

\* a collaborator calls the listener registered under actionName
Trigger(actionName) ==
    /\ actionName \in DOMAIN actionListeners
    /\ Commit(InvokeListener(W, actionName), "trigger", actionName, NoParams)

\* a collaborator drains the queue with getCommands(); the operation's
\* parameter records the array the call returns
GetCommands ==
    /\ commandQueue # <<>>
    /\ Commit(getCommands(W), "getCommands", "", getCommandsResult(W))

\* the queue has been drained.  _onKeyDown and its handlers never read the
\* queue, so a specification that is not about the queue's contents lets
\* its keys arrive once the queue is empty
Drained == commandQueue = <<>>

\* a collaborator calls setMode(newMode, { targetPhrase })
SetMode(newMode) ==
    /\ mode # newMode
    /\ Commit(setMode(W, newMode, TypingPhrase), "setMode", newMode, NoParams)

\* a collaborator calls setActive(isActive)
SetActive(isActive) ==
    /\ active # isActive
    /\ Commit(setActive(W, isActive), "setActive", "", NoParams)

\* the game: initializeGame's construction, then keys, frames, loading and
\* switchTo requests
Next ==
    \/ InitGame
    \/ \E key \in GameKeys : currentStateName # Null /\ Drained /\ KeyDown(key)
    \/ Frame
    \/ LoadingReady
    \/ \E actionName \in ActionNames : Trigger(actionName)
    \/ \E request \in SwitchRequests : SwitchTo(request)

Spec == Init /\ [][Next]_vars

\* the InputHandler alone, driven through its public methods
NextParser ==
    \/ \E key \in ParserKeys : Drained /\ KeyDown(key)
    \/ TimerFire
    \/ GetCommands
    \/ \E newMode \in {INPUT_MODE.NORMAL, INPUT_MODE.TYPING} : SetMode(newMode)
    \/ \E isActive \in BOOLEAN : SetActive(isActive)

SpecParser == Init /\ [][NextParser]_vars

\* keys of the queue specification: a motion, a simple command, a phrase
\* character and Escape
QueueKeys == {"l", "x", "a", "Escape"}

\* the InputHandler's queue: keys arrive whatever is queued, and the queue is
\* drained or dropped at any moment
NextQueue ==
    \/ \E key \in QueueKeys : KeyDown(key)
    \/ GetCommands
    \/ \E newMode \in {INPUT_MODE.NORMAL, INPUT_MODE.TYPING} : SetMode(newMode)
    \/ \E isActive \in BOOLEAN : SetActive(isActive)

SpecQueue == Init /\ [][NextQueue]_vars

\* PlayingState running level levelId with the player's cursor at (x, y):
\* init(), the switch to LOADING, the level's arrival, the switch to PLAYING
\* and the player's moves to (x, y)
PlayingAt(build, levelId, x, y) ==
    LET w1 == StateManager_init(Constructed(build), "MENU", NoParams)
        w2 == switchTo(w1, "LOADING", [NoParams EXCEPT !.levelId = levelId])
        w3 == [loadLevel(w2, levelId) EXCEPT
                   !.levelData = loadLevelResult(levelId),
                   !.levelDataTiles = loadLevelTiles(w2, levelId),
                   !.levelLoaded = TRUE, !.assetsLoaded = TRUE]
        w4 == LoadingState_update(w3)
    IN [w4 EXCEPT !.playerX = x, !.playerY = y, !.thrown = "",
                  !.emitted = <<>>, !.lifecycle = <<>>]

InitPlayer ==
    \E build \in Builds, levelId \in LevelIds :
        \E x \in 0..LevelWidth(levelId) - 1, y \in 0..LevelHeight(levelId) - 1 :
            Start(PlayingAt(build, levelId, x, y))

\* motions an operator command may carry
Motions == {"LINE", "LEFT", "RIGHT", "UP", "DOWN", "WORD_FORWARD", "WORD_END",
            "WORD_BACKWARD", "LINE_END", "LINE_START", "LINE_FIRST_CHAR"}

OperatorCommands ==
    {[type |-> type, motion |-> motion, count |-> count] :
        type \in {"DELETE", "CHANGE"}, motion \in Motions, count \in 1..MaxCount}

\* PlayingState.update hands one operator command to player.handleInput, as
\* the first operation on the level
HandleInput(command) ==
    /\ currentStateName = "PLAYING"
    /\ hist.op = "construct"
    /\ Commit(Player_handleInput(W, << command >>), "handleInput", "", command)

\* the Player's operator commands, from every cursor position of every level
NextPlayer == \E command \in OperatorCommands : HandleInput(command)

SpecPlayer == InitPlayer /\ [][NextPlayer]_vars

\* tiles a level definition may additionally mark corrupted, as
\* _placeTile(tiles, x, y, { char: '#', type: 'corrupted' }) does
CorruptedCandidates == {<< 2, 1 >>, << 4, 1 >>, << 15, 2 >>}

\* cursor columns and row the range specification starts from: before and
\* between the corrupted tiles of row 1
CursorColumns == {0, 3}
CursorRows == {1}

\* level 1 with the tiles of corrupted marked corrupted, loaded and being
\* played with the cursor at (x, y)
PlayingCorrupted(build, corrupted, x, y) ==
    LET marked == [p \in corrupted |-> [char |-> "#", type |-> "corrupted"]]
        w1 == StateManager_init([Constructed(build) EXCEPT !.levels[1] = marked],
                                "MENU", NoParams)
        w2 == switchTo(w1, "LOADING", [NoParams EXCEPT !.levelId = 1])
        w3 == [loadLevel(w2, 1) EXCEPT
                   !.levelData = loadLevelResult(1),
                   !.levelDataTiles = loadLevelTiles(w2, 1),
                   !.levelLoaded = TRUE, !.assetsLoaded = TRUE]
        w4 == LoadingState_update(w3)
    IN [w4 EXCEPT !.playerX = x, !.playerY = y, !.thrown = "",
                  !.emitted = <<>>, !.lifecycle = <<>>]

InitRange ==
    \E build \in Builds, corrupted \in SUBSET CorruptedCandidates :
        \E x \in CursorColumns, y \in CursorRows :
            Start(PlayingCorrupted(build, corrupted, x, y))

\* corners of the ranges handed to processPlayerActions and to
\* handleRangeAction: in the grid, on
\* its barrier row, on the enemy's tile and outside the grid
RangeColumns == {-1, 2, 4, 15}
RangeRows == {-1, 1, 2}

PlayerActions ==
    {[type |-> type, cost |-> 0,
      target |-> [startX |-> startX, startY |-> startY,
                  endX |-> endX, endY |-> endY]] :
        type \in {"DELETE_RANGE", "CHANGE_RANGE"},
        startX \in RangeColumns, endX \in RangeColumns,
        startY \in RangeRows, endY \in RangeRows}
    \cup {[type |-> "REPLACE_CHAR", cost |-> 0,
           target |-> [x |-> x, y |-> y, char |-> "x"]] :
              x \in CursorColumns, y \in RangeRows}

\* the actions handed to processPlayerActions: the ranges given from their
\* top left corner, and the replacements
ProcessedActions ==
    {action \in PlayerActions :
        IsRangeAction(action) =>
            /\ action.target.startX <= action.target.endX
            /\ action.target.startY <= action.target.endY}

\* PlayingState.processPlayerActions is handed one action, as the first
\* operation on the level
ProcessAction(action) ==
    /\ currentStateName = "PLAYING"
    /\ hist.op = "construct"
    /\ Commit(processPlayerActions(W, << action >>), "processAction", "", action)

\* the ranges handleRangeAction is called with, in either order of their
\* corners; the action type it is given is only logged
RangeActions == {action \in PlayerActions : action.type = "DELETE_RANGE"}

\* PlayingState.handleRangeAction is called with the fields of one range
\* action, as processPlayerActions' first body calls it, as the first
\* operation on the level
HandleRangeAction(action) ==
    /\ currentStateName = "PLAYING"
    /\ hist.op = "construct"
    /\ Commit(handleRangeAction(W, action.target, action.cost, action.type),
              "handleRangeAction", "", action)

\* a collaborator calls levelManager.loadLevel(levelId)
LoadLevel(levelId) ==
    /\ hist.op # "loadLevel"
    /\ Commit([loadLevel(W, levelId) EXCEPT
                   !.levelDataTiles = loadLevelTiles(W, levelId)],
              "loadLevel", "", [NoParams EXCEPT !.levelId = levelId])

\* a callback scheduled by showMessage runs
MessageTimerFire ==
    \E t \in messageTimers :
        Commit(MessageTimeoutCallback([W EXCEPT !.messageTimers = @ \ {t}]),
               "messageTimer", "", t)

\* keys of the range specification
RangeKeys == {"d", "$"}

\* range actions on a level with corrupted tiles: applied directly, and end
\* to end from the keys through a frame
NextRange ==
    \/ \E action \in ProcessedActions : ProcessAction(action)
    \/ \E action \in RangeActions : HandleRangeAction(action)
    \/ \E key \in RangeKeys : Drained /\ KeyDown(key)
    \/ Frame
    \/ \E levelId \in LevelIds : LoadLevel(levelId)
    \/ MessageTimerFire

SpecRange == InitRange /\ [][NextRange]_vars

---------------------------------------------------------------------------
\* Properties

\* C1: after StateManager.init() exactly one mode is current, and it is one
\* of the six modes; init() without arguments makes it MENU.
C1_OneModeCurrent ==
    /\ hist.op # "construct" =>
          currentStateName \in StateNames /\ currentState = currentStateName
    /\ hist.op = "init" => currentStateName = "MENU"

\* C2: when PlayingState.update has run with the player defeated, the
\* current mode is GAME_OVER, entered with the player's score and the id of
\* the current level, whatever tile the player stands on.
C2_DefeatReachesGameOver ==
    (hist.op = "update" /\ hist.preState = "PLAYING" /\ playerState = "defeated") =>
        /\ currentStateName = "GAME_OVER"
        /\ goFinalScore = score
        /\ goLevelId = currentLevel

\* C3: when the unpause action has taken the machine from PAUSED back to
\* PLAYING, the elapsed time, the enemy roster and the player's position are
\* what they were when the pause was triggered.
C3_PauseRoundTrip ==
    (hist.op = "trigger" /\ hist.key = "unpause" /\ hist.preState = "PAUSED"
        /\ currentStateName = "PLAYING" /\ pauseSnapshot.valid) =>
        /\ elapsedTime = pauseSnapshot.elapsedTime
        /\ enemies = pauseSnapshot.enemies
        /\ playerX = pauseSnapshot.x
        /\ playerY = pauseSnapshot.y

\* C4: an Escape key pressed while PAUSED is current leaves PLAYING current.
C4_EscapeUnpauses ==
    (hist.op = "key" /\ hist.key = "Escape" /\ hist.preState = "PAUSED"
        /\ hist.preActive) =>
        currentStateName = "PLAYING"

\* C5: an Enter key pressed while MENU is current leaves LOADING current with
\* levelId 1, or leaves a CONFIRM command in the queue for MenuState.update.
C5_EnterConfirms ==
    (hist.op = "key" /\ hist.key = "Enter" /\ hist.preState = "MENU"
        /\ hist.preActive) =>
        \/ currentStateName = "LOADING" /\ loadingLevelId = 1
        \/ HasConfirm(commandQueue)

\* the listeners a mode registers on entry, by action name
ExpectedListeners(stateName) ==
    CASE stateName = "MENU" -> [a \in {"confirm"} |-> "MenuState.confirm"]
      [] stateName = "PLAYING" -> [a \in {"pause"} |-> "PlayingState.pause"]
      [] stateName = "PAUSED" -> [a \in {"unpause"} |-> "PausedState.unpause"]
      [] stateName = "GAME_OVER" ->
            [a \in {"confirm", "menu"} |->
                IF a = "confirm" THEN "GameOverState.confirm" ELSE "GameOverState.menu"]
      [] stateName = "LEVEL_COMPLETE" ->
            [a \in {"confirm", "menu"} |->
                IF a = "confirm" THEN "LevelCompleteState.confirm"
                ELSE "LevelCompleteState.menu"]
      [] OTHER -> <<>>

\* C6: once the machine is initialised, the listeners registered on the input
\* handler are exactly those of the current mode; none of an exited mode stays.
C6_ListenersOfCurrentMode ==
    hist.op # "construct" => actionListeners = ExpectedListeners(currentStateName)

\* what a switchTo that falls back to MENU does: the old mode, if any, exits,
\* then MENU is entered with empty parameters
FallbackLifecycle(oldState) ==
    (IF oldState \in StateNames THEN << [ev |-> "exit", state |-> oldState] >> ELSE <<>>)
    \o << [ev |-> "enter", state |-> "MENU", params |-> NoParams] >>

\* C7: switchTo with a name that is not one of the six modes exits the
\* current mode and enters MENU with empty parameters.
C7_UnknownNameFallsBack ==
    (hist.op = "switchTo" /\ hist.key \notin StateNames) =>
        /\ currentStateName = "MENU"
        /\ currentState = "MENU"
        /\ lifecycle = FallbackLifecycle(hist.preState)

\* the motion keys of navigation mode and the motions they stand for
MotionKeys == {"h", "j", "k", "l", "w", "b", "e", "0", "^", "$"}
MotionOf(key) == IF key = "0" THEN "LINE_START" ELSE motionMap[key]

IsOperatorMotion(command, operator, motion, count) ==
    /\ command.type = typeMap[operator]
    /\ "motion" \in DOMAIN command
    /\ command.motion = motion
    /\ command.count = count

IsMove(command, motion) ==
    \/ command.type = "MOVE" /\ command.direction = motion
    \/ command.type = "MOVE_TO" /\ command.target = motion

\* C8: in navigation mode a motion key pressed with an operator pending
\* emits exactly one operator-motion command with that operator, that motion
\* and the current count; pressed with nothing pending it emits a move.
C8_MotionKeyEmits ==
    (hist.op = "key" /\ hist.preActive /\ hist.preMode = INPUT_MODE.NORMAL
        /\ hist.key \in MotionKeys) =>
        /\ hist.preBuffer \in Operators =>
              /\ Len(emitted) = 1
              /\ IsOperatorMotion(emitted[1], hist.preBuffer, MotionOf(hist.key),
                                  Max(1, parseInt(hist.prePrefix)))
        /\ (hist.preBuffer = "" /\ ~ (hist.key = "0" /\ hist.prePrefix # <<>>)) =>
              /\ Len(emitted) = 1
              /\ IsMove(emitted[1], MotionOf(hist.key))

\* C9: every command a navigation-mode key emits with a count carries
\* max(1, value of the numeric prefix), and after an emission the numeric
\* prefix and the pending buffer are empty.
C9_CountAndReset ==
    (hist.op = "key" /\ hist.preMode = INPUT_MODE.NORMAL) =>
        /\ \A i \in 1..Len(emitted) :
              "count" \in DOMAIN emitted[i] =>
                  emitted[i].count = Max(1, parseInt(hist.prePrefix))
        /\ emitted # <<>> => numericPrefix = <<>> /\ commandBuffer = ""

\* C9 happens: x pressed after the prefix 20 emitted a command with count 20
C9_Witness ==
    /\ hist.op = "key" /\ hist.key = "x" /\ hist.preMode = INPUT_MODE.NORMAL
    /\ hist.prePrefix = << "2", "0" >>
    /\ emitted = << [type |-> "DELETE_CHAR", count |-> 20] >>
    /\ numericPrefix = <<>>

\* C10: an operator key pressed directly after the same operator key emits
\* exactly one operator-motion command with motion LINE and the count of the
\* prefix, whether or not a scheduled callback ran in between.
C10_DoubledOperator ==
    (hist.op = "key" /\ hist.key \in Operators /\ hist.preArmed.key = hist.key) =>
        emitted = << [type |-> typeMap[hist.key], motion |-> "LINE",
                      count |-> Max(1, parseInt(hist.preArmed.prefix))] >>

\* C10 happens: 2, d, the callback, d
C10_Witness ==
    /\ hist.op = "key" /\ hist.key = "d"
    /\ hist.preArmed = [key |-> "d", prefix |-> << "2" >>, timerRan |-> TRUE]
    /\ emitted = << [type |-> "DELETE", motion |-> "LINE", count |-> 2] >>

\* C11: after r is pressed in navigation mode with nothing pending, the next
\* single-character key, whatever it is, emits exactly one replace-execute
\* command carrying that key and no other command.
C11_ReplaceTakesAnyKey ==
    (hist.op = "key" /\ hist.preActive /\ hist.preMode = INPUT_MODE.NORMAL
        /\ hist.preBuffer = "r" /\ KeyLength(hist.key) = 1) =>
        emitted = << [type |-> "REPLACE_CHAR_EXECUTE", char |-> hist.key] >>

\* keys of navigation mode that are no digit, operator, motion or simple command
UnrelatedKeys == {"Enter", "Backspace", "Shift", "a"}

\* C12: when an operator or a replace is pending, or a numeric prefix is
\* held, a key that neither completes nor extends the sequence leaves both
\* the numeric prefix and the pending buffer empty when its handling returns.
C12_UnrelatedKeyCancels ==
    (hist.op = "key" /\ hist.preActive /\ hist.preMode = INPUT_MODE.NORMAL
        /\ hist.key \in UnrelatedKeys
        /\ (hist.preBuffer # "" \/ hist.prePrefix # <<>>)
        /\ (hist.preBuffer = "r" => KeyLength(hist.key) > 1)) =>
        numericPrefix = <<>> /\ commandBuffer = ""

\* C13: in navigation mode a key that matches no active buffer state (no
\* digit, operator, motion, simple command or awaited replacement character)
\* causes a clear-buffer command to be emitted.
C13_UnmatchedKeyEmitsClear ==
    (hist.op = "key" /\ hist.preActive /\ hist.preMode = INPUT_MODE.NORMAL
        /\ hist.key \in UnrelatedKeys
        /\ (hist.preBuffer = "r" => KeyLength(hist.key) > 1)) =>
        \E i \in 1..Len(emitted) : emitted[i].type = "CLEAR_BUFFER"

\* C14: in navigation mode with no operator or replace pending, a digit 1-9,
\* or a 0 pressed while the numeric prefix is non-empty, is appended to the
\* prefix and emits nothing; a 0 pressed with an empty prefix emits the
\* line-start motion and leaves the prefix empty.
C14_DigitsAndLoneZero ==
    (hist.op = "key" /\ hist.preActive /\ hist.preMode = INPUT_MODE.NORMAL
        /\ hist.preBuffer = "") =>
        /\ (hist.key \in Digits19 \/ (hist.key = "0" /\ hist.prePrefix # <<>>)) =>
              /\ numericPrefix = Append(hist.prePrefix, hist.key)
              /\ emitted = <<>>
        /\ (hist.key = "0" /\ hist.prePrefix = <<>>) =>
              /\ emitted = << [type |-> "MOVE_TO", target |-> "LINE_START",
                               count |-> 1] >>
              /\ numericPrefix = <<>>

\* C14 happens: a lone 0 was pressed and the line-start motion came out
C14_Witness ==
    /\ hist.op = "key" /\ hist.key = "0" /\ hist.preActive
    /\ hist.preMode = INPUT_MODE.NORMAL
    /\ hist.preBuffer = "" /\ hist.prePrefix = <<>>
    /\ emitted # <<>> /\ emitted[1].type = "MOVE_TO"

\* C19: every range action the player emits for an operator+motion command
\* has startX <= endX and startY <= endY, for every motion, cursor position
\* (the last column included) and count; an empty span gives no action.
C19_RangesAreOrdered ==
    hist.op = "handleInput" =>
        \A i \in 1..Len(generatedActions) :
            IsRangeAction(generatedActions[i]) =>
                /\ generatedActions[i].target.startX <= generatedActions[i].target.endX
                /\ generatedActions[i].target.startY <= generatedActions[i].target.endY

\* the range of all columns and of the rows y to min(y+n-1, height-1)
LineRange(level, y, n) ==
    [startX |-> 0, startY |-> y, endX |-> LevelWidth(level) - 1,
     endY |-> Min(y + n - 1, LevelHeight(level) - 1)]

\* C20: for every count n >= 1 and cursor row y, an operator with the LINE
\* motion yields the range of all columns 0..width-1 and the rows y to
\* min(y+n-1, height-1): that is the range _handleDeleteOrChangeMotion
\* computes and hands to requestAction, and the range of every action the
\* command produces.
C20_LineMotionRange ==
    (hist.op = "handleInput" /\ hist.params.motion = "LINE") =>
        LET s == motionSpan(currentLevel, playerX, playerY, "LINE", hist.params.count)
            range == LineRange(currentLevel, playerY, hist.params.count)
        IN /\ s.valid
           /\ [startX |-> s.startX, startY |-> s.startY,
               endX |-> s.endX, endY |-> s.endY] = range
           /\ \A i \in 1..Len(generatedActions) :
                 /\ IsRangeAction(generatedActions[i])
                 /\ generatedActions[i].target = range

\* C20 happens: a LINE operator with a count reaching past the last row
C20_Witness ==
    /\ hist.op = "handleInput" /\ hist.params.motion = "LINE"
    /\ hist.params.count > 1
    /\ playerY + hist.params.count - 1 > LevelHeight(currentLevel) - 1
    /\ generatedActions # <<>>
    /\ generatedActions[1].target.endY = LevelHeight(currentLevel) - 1

\* C15: a count typed between the operator and the motion is honoured: the
\* keys d, n, l (n a digit 1-9) produce a delete over the n tiles starting at
\* the cursor, clamped at the row end, wherever the cursor is.
C15_CountAfterOperator ==
    (hist.op = "key" /\ hist.key = "l" /\ hist.preActive
        /\ hist.preMode = INPUT_MODE.NORMAL
        /\ hist.preBuffer = "d" /\ hist.preDigit # "") =>
        /\ Len(emitted) = 1
        /\ emitted[1].type = "DELETE"
        /\ \A level \in LevelIds :
              \A x \in 0..LevelWidth(level) - 1, y \in 0..LevelHeight(level) - 1 :
                 LET s == motionSpan(level, x, y, emitted[1].motion, emitted[1].count)
                 IN /\ s.valid
                    /\ s.startX = x /\ s.startY = y /\ s.endY = y
                    /\ s.endX = Min(LevelWidth(level) - 1,
                                    x + DigitValue(hist.preDigit) - 1)

ParserOps == {"key", "timer", "setMode", "setActive", "getCommands"}

\* C16 as claimed: every command the parser emits is delivered by exactly
\* one getCommands call, in emission order: an operation other than
\* getCommands leaves the queue as it was plus what it emitted, and
\* getCommands returns the whole queue and leaves it empty.
C16_EveryCommandDelivered ==
    hist.op \in ParserOps =>
        IF hist.op = "getCommands"
        THEN hist.params = hist.preQueue /\ commandQueue = <<>>
        ELSE commandQueue = hist.preQueue \o emitted

\* C16, amended: every command the parser emits is delivered by at most one
\* getCommands call, in emission order, and is dropped undelivered only when
\* setActive(false) runs before that call; none is returned twice and the
\* queue is empty right after each getCommands call.
C16_DeliveredUnlessDeactivated ==
    hist.op \in ParserOps =>
        IF hist.op = "getCommands"
        THEN hist.params = hist.preQueue /\ commandQueue = <<>>
        ELSE IF hist.op = "setActive" /\ ~ active THEN commandQueue = <<>>
        ELSE commandQueue = hist.preQueue \o emitted

\* C16 happens: getCommands returned the commands of two keystrokes, the move
\* of l before the delete of x, and emptied the queue
C16_Witness ==
    /\ hist.op = "getCommands"
    /\ Len(hist.params) = 2
    /\ hist.params[1].type = "MOVE"
    /\ hist.params[2].type = "DELETE_CHAR"
    /\ commandQueue = <<>>

\* C17: in text-entry mode with target phrase P and index i < |P|, a key
\* equal to P[i] emits a correct-type command and advances i by one, followed
\* by a phrase-complete command when i thereby reaches |P|; any other
\* single-character key emits an incorrect-type command and leaves i unchanged.
C17_TypingKeys ==
    (hist.op = "key" /\ hist.preActive /\ hist.preMode = INPUT_MODE.TYPING
        /\ hist.preIndex < Len(targetTypingPhrase) /\ KeyLength(hist.key) = 1) =>
        IF hist.key = targetTypingPhrase[hist.preIndex + 1]
        THEN /\ currentTypingIndex = hist.preIndex + 1
             /\ emitted # <<>>
             /\ emitted[1] = [type |-> "TYPE_CORRECT", char |-> hist.key,
                              index |-> hist.preIndex]
             /\ IF currentTypingIndex = Len(targetTypingPhrase)
                THEN emitted = << emitted[1], [type |-> "PHRASE_COMPLETE"] >>
                ELSE Len(emitted) = 1
        ELSE /\ currentTypingIndex = hist.preIndex
             /\ Len(emitted) = 1
             /\ emitted[1].type = "TYPE_INCORRECT"
             /\ emitted[1].char = hist.key

\* C17 happens: the last character of the phrase was typed and the phrase
\* completed
C17_Witness ==
    /\ hist.op = "key" /\ hist.preMode = INPUT_MODE.TYPING
    /\ hist.preIndex = Len(targetTypingPhrase) - 1
    /\ hist.preIndex > 0
    /\ currentTypingIndex = Len(targetTypingPhrase)
    /\ Len(emitted) = 2

\* C18 as claimed: in text-entry mode the typing index stays within
\* 0..|P|, and Backspace emits a type-backspace command and lowers the index
\* by one, the index never going below 0.
C18_BackspaceAlwaysEmits ==
    /\ currentTypingIndex \in 0..Len(targetTypingPhrase)
    /\ (hist.op = "key" /\ hist.key = "Backspace" /\ hist.preActive
          /\ hist.preMode = INPUT_MODE.TYPING) =>
          /\ currentTypingIndex = Max(0, hist.preIndex - 1)
          /\ emitted = << [type |-> "TYPE_BACKSPACE", index |-> currentTypingIndex] >>

\* C18, amended: the typing index stays within 0..|P|; Backspace at an index
\* above 0 emits a type-backspace command and lowers the index by one, and
\* Backspace at index 0 emits nothing and leaves the index at 0.
C18_BackspaceAboveZero ==
    /\ currentTypingIndex \in 0..Len(targetTypingPhrase)
    /\ (hist.op = "key" /\ hist.key = "Backspace" /\ hist.preActive
          /\ hist.preMode = INPUT_MODE.TYPING) =>
          IF hist.preIndex > 0
          THEN /\ currentTypingIndex = hist.preIndex - 1
               /\ emitted = << [type |-> "TYPE_BACKSPACE",
                                index |-> currentTypingIndex] >>
          ELSE currentTypingIndex = 0 /\ emitted = <<>>

\* C18 happens: Backspace after the whole phrase was typed stepped back by one
C18_Witness ==
    /\ hist.op = "key" /\ hist.key = "Backspace"
    /\ hist.preMode = INPUT_MODE.TYPING
    /\ hist.preIndex = Len(targetTypingPhrase) /\ hist.preIndex > 0
    /\ currentTypingIndex = hist.preIndex - 1
    /\ emitted # <<>>

\* the cursor stands on the first character of a word of its row
OnWordStart ==
    /\ currentLevel \in LevelIds
    /\ ~ IsBlank(currentLevel, playerX, playerY)
    /\ (playerX = 0 \/ IsBlank(currentLevel, playerX - 1, playerY))

\* C21: an operator with the WORD_BACKWARD motion issued while the cursor is
\* on the first character of a word produces no action, for every such
\* cursor position and every count.
C21_WordBackwardAtWordStart ==
    (hist.op = "handleInput" /\ hist.params.motion = "WORD_BACKWARD"
        /\ OnWordStart) =>
        generatedActions = <<>>

---------------------------------------------------------------------------
\* Range actions applied to the grid

\* the world as it was before the last operation, for the fields range
\* actions read and write
PreWorld ==
    [W EXCEPT !.currentLevelTiles.tiles = hist.preTiles, !.levels = hist.preLevels,
              !.enemies = hist.preEnemies, !.score = hist.preScore,
              !.mode = hist.preMode]

GridCells ==
    {<< x, y >> : x \in 0..(LevelWidth(currentLevel) - 1),
                  y \in 0..(LevelHeight(currentLevel) - 1)}

TileBefore(p) == tileOf(currentLevel, hist.preTiles, p[1], p[2])
TileNow(p) == tileOf(currentLevel, currentLevelTiles.tiles, p[1], p[2])

\* p lies in the rectangle spanned by the two corners, in either order
InRange(target, p) ==
    /\ Min(target.startX, target.endX) <= p[1]
    /\ p[1] <= Max(target.startX, target.endX)
    /\ Min(target.startY, target.endY) <= p[2]
    /\ p[2] <= Max(target.startY, target.endY)

EnemyOn(roster, p) ==
    \E i \in 1..Len(roster) : roster[i].x = p[1] /\ roster[i].y = p[2]

\* the corrupted tiles of the rectangle no enemy stood on
Convertible(target) ==
    {p \in GridCells : /\ InRange(target, p)
                       /\ TileBefore(p).type = "corrupted"
                       /\ ~ EnemyOn(hist.preEnemies, p)}

\* the last operation was handleRangeAction on one range
RangeApplied ==
    /\ hist.op = "handleRangeAction"
    /\ IsRangeAction(hist.params)

\* the last operation handed one CHANGE_RANGE action to processPlayerActions
ChangeProcessed ==
    /\ hist.op = "processAction"
    /\ hist.params.type = "CHANGE_RANGE"

\* the same rectangle with start and end swapped on the x axis, the y axis,
\* or both
Swapped(target) ==
    {[startX |-> target.endX, startY |-> target.startY,
      endX |-> target.startX, endY |-> target.endY],
     [startX |-> target.startX, startY |-> target.endY,
      endX |-> target.endX, endY |-> target.startY],
     [startX |-> target.endX, startY |-> target.endY,
      endX |-> target.startX, endY |-> target.startY]}

\* C22: range application is order-independent: handleRangeAction given the
\* corners of a rectangle, and given the same corners with start and end
\* swapped on either or both axes, changes the same tiles, damages the same
\* enemies and awards the same score.
C22_RangeOrderIndependent ==
    RangeApplied =>
        \A target \in Swapped(hist.params.target) :
            LET other == handleRangeAction(PreWorld, target, hist.params.cost,
                                           hist.params.type)
            IN /\ other.currentLevelTiles = currentLevelTiles
               /\ other.enemies = enemies
               /\ other.score = score

\* C22 happens: a rectangle given with both axes reversed cleared a tile
C22_Witness ==
    /\ RangeApplied
    /\ hist.params.target.startX > hist.params.target.endX
    /\ hist.params.target.startY > hist.params.target.endY
    /\ score > hist.preScore
    /\ currentLevelTiles.tiles # hist.preTiles

\* C23: a range action turns every corrupted tile of the range that no enemy
\* occupies into a pathway and adds 5 to the score per converted tile; the
\* barrier and exit-node tiles of the range stay as they were.
C23_CorruptedBecomePathway ==
    RangeApplied =>
        /\ \A p \in Convertible(hist.params.target) : TileNow(p).type = "pathway"
        /\ score = hist.preScore + 5 * Cardinality(Convertible(hist.params.target))
        /\ \A p \in GridCells :
              (InRange(hist.params.target, p)
                  /\ TileBefore(p).type \in {"barrier", "exit-node"}) =>
              TileNow(p) = TileBefore(p)

\* C23 happens: the range held a corrupted tile, a barrier and the exit node
C23_Witness ==
    /\ RangeApplied
    /\ Convertible(hist.params.target) # {}
    /\ \E p \in GridCells : InRange(hist.params.target, p)
                              /\ TileBefore(p).type = "barrier"
    /\ \E p \in GridCells : InRange(hist.params.target, p)
                              /\ TileBefore(p).type = "exit-node"
    /\ score = hist.preScore + 5 * Cardinality(Convertible(hist.params.target))

\* C24: for every tile of a range action an enemy stands on, an enemy on the
\* tile takes the damage 5, the tile keeps its kind and glyph even when it is
\* corrupted, and no score is earned for it.
C24_EnemyShadowsTile ==
    RangeApplied =>
        /\ \A p \in GridCells :
              (InRange(hist.params.target, p) /\ EnemyOn(hist.preEnemies, p)) =>
                 /\ TileNow(p) = TileBefore(p)
                 /\ Len(enemies) = Len(hist.preEnemies)
                 /\ \E i \in 1..Len(enemies) :
                       /\ hist.preEnemies[i].x = p[1] /\ hist.preEnemies[i].y = p[2]
                       /\ enemies[i].health = Max(0, hist.preEnemies[i].health - 5)
        /\ score - hist.preScore =
              5 * Cardinality({p \in GridCells :
                                  /\ InRange(hist.params.target, p)
                                  /\ TileBefore(p).type = "corrupted"
                                  /\ ~ EnemyOn(hist.preEnemies, p)})

\* C24 happens: the range covered an enemy standing on a corrupted tile
C24_Witness ==
    /\ RangeApplied
    /\ \E p \in GridCells :
          /\ InRange(hist.params.target, p)
          /\ EnemyOn(hist.preEnemies, p)
          /\ TileBefore(p).type = "corrupted"
          /\ TileNow(p).type = "corrupted"
    /\ enemies # hist.preEnemies

\* the command the keys d and $ put in the queue
DeleteToLineEnd == [type |-> "DELETE", motion |-> "LINE_END", count |-> 1]

\* a frame of play took the d$ command with no enemy on the cursor's row
DeleteToLineEndFrame ==
    /\ hist.op = "update" /\ hist.preState = "PLAYING"
    /\ hist.preQueue = << DeleteToLineEnd >>
    /\ \A i \in 1..Len(hist.preEnemies) : hist.preEnemies[i].y # hist.preY

\* the corrupted tiles from the cursor to the end of its row
RowTail ==
    {p \in GridCells : /\ p[2] = hist.preY /\ p[1] >= hist.preX
                       /\ TileBefore(p).type = "corrupted"}

C26_ChangeIsDeleteThenTyping ==
    ChangeProcessed =>
        LET delete == processPlayerActions(PreWorld,
                         << [hist.params EXCEPT !.type = "DELETE_RANGE"] >>)
        IN /\ delete.currentLevelTiles = currentLevelTiles
           /\ delete.enemies = enemies
           /\ delete.score = score
           /\ mode = INPUT_MODE.TYPING
           /\ targetTypingPhrase = <<>>
           /\ currentTypingIndex = 0

\* C29: loadLevel(id) returns a copy that shares no tile with the stored
\* definition: no operation on a returned level changes the definitions, and
\* a later loadLevel(id) returns the level as it is defined.
C29_LoadLevelCopies ==
    /\ levels = hist.preLevels
    /\ (hist.op = "loadLevel" /\ hist.params.levelId \in LevelIds) =>
          levelDataTiles = [tiles |-> hist.preLevels[hist.params.levelId],
                            isDefinition |-> FALSE]

\* C29 happens: level 1 is loaded again after a corrupted tile of the copy
\* being played became a pathway
C29_Witness ==
    /\ hist.op = "loadLevel" /\ hist.params.levelId = 1
    /\ currentLevel = 1
    /\ \E p \in DOMAIN levelDataTiles.tiles :
          /\ levelDataTiles.tiles[p].type = "corrupted"
          /\ TileNow(p).type = "pathway"

\* C27: at most one message timer is pending at any time: a showMessage
\* called while the timer of an earlier timed message is pending cancels that
\* timer, so a pending timer is always the one of the message on display and
\* a timeout only ever clears the message it was scheduled for.
C27_OneMessageTimer ==
    /\ Cardinality(messageTimers) <= 1
    /\ \A t \in messageTimers :
          t.id = messageTimeoutId /\ t.message = statusMessage
    /\ hist.op = "messageTimer" =>
          /\ hist.params.message = hist.preMessage
          /\ messageTimers = {}

\* C27 happens: a frame showed a timed message while the timer of an earlier
\* one was pending
C27_Witness ==
    /\ hist.op = "update"
    /\ hist.preTimers # {}
    /\ score > hist.preScore
    /\ messageTimers # {}
    /\ messageTimeoutId # 0

---------------------------------------------------------------------------
\* The game loop, driven by the browser's animation frames

\* milliseconds between two animation frames
FrameDurations == {1000, 2000}

\* what a call of the render function does
Outcomes == {"returns", "throws"}

\* what a call of the update function does: it may also call stop()
UpdateOutcomes == Outcomes \cup {"stops"}

\* ids requestAnimationFrame can hand out within MaxLoopCalls calls
RafIds == 1..MaxLoopCalls

\* gameLoop.start(), not twice in a row
LoopStart ==
    /\ hist.op # "start"
    /\ Commit([W EXCEPT !.gameLoop = GameLoop_start(@)], "start", "", NoParams)

\* gameLoop.stop(), not twice in a row
LoopStop ==
    /\ hist.op # "stop"
    /\ Commit([W EXCEPT !.gameLoop = GameLoop_stop(@)], "stop", "", NoParams)

\* the browser runs the callback requested under id, duration after the
\* previous frame
LoopFrame(id, duration, updateOutcome, renderOutcome) ==
    /\ id \in gameLoop.rafPending
    /\ Len(gameLoop.calls) + 2 <= MaxLoopCalls
    /\ LET g == [gameLoop EXCEPT !.rafPending = @ \ {id}, !.now = @ + duration]
       IN Commit([W EXCEPT !.gameLoop =
                     GameLoop_loop(g, g.now, updateOutcome, renderOutcome)],
                 "loop", "", [update |-> updateOutcome, render |-> renderOutcome])

NextLoop ==
    \/ LoopStart
    \/ LoopStop
    \/ \E id \in RafIds, duration \in FrameDurations,
          updateOutcome \in UpdateOutcomes, renderOutcome \in Outcomes :
          LoopFrame(id, duration, updateOutcome, renderOutcome)

SpecLoop == Init /\ [][NextLoop]_vars

\* the latest operation was a frame callback that found the loop running
FrameRan == hist.op = "loop" /\ gameLoop.wasRunning

\* C28 as stated: while the loop is running every frame callback calls update
\* exactly once and then render exactly once, and update is never called
\* twice without a render in between.
C28_UpdateThenRender ==
    /\ FrameRan =>
          /\ Len(gameLoop.frameCalls) = 2
          /\ gameLoop.frameCalls[1].fn = "update"
          /\ gameLoop.frameCalls[2].fn = "render"
    /\ \A i \in 1..(Len(gameLoop.calls) - 1) :
          ~ (gameLoop.calls[i].fn = "update" /\ gameLoop.calls[i + 1].fn = "update")

\* C28: while the loop is running every frame callback calls update exactly
\* once and then, if update returned, render exactly once, in that order; if
\* update throws, render is not called in that frame and the loop stops; update
\* is never called twice without a render in between unless the earlier call
\* threw.
C28_UpdateThenRenderUnlessThrown ==
    /\ FrameRan =>
          /\ Len(gameLoop.frameCalls) >= 1
          /\ gameLoop.frameCalls[1].fn = "update"
          /\ IF gameLoop.frameCalls[1].outcome # "throws"
             THEN /\ Len(gameLoop.frameCalls) = 2
                  /\ gameLoop.frameCalls[2].fn = "render"
             ELSE /\ Len(gameLoop.frameCalls) = 1
                  /\ ~ gameLoop.isRunning
    /\ \A i \in 1..(Len(gameLoop.calls) - 1) :
          (gameLoop.calls[i].fn = "update" /\ gameLoop.calls[i + 1].fn = "update") =>
              gameLoop.calls[i].outcome = "throws"

\* C28 happens: a frame whose update threw, then, after a restart, a frame
\* that updated and rendered
C28_Witness ==
    /\ FrameRan
    /\ Len(gameLoop.calls) >= 3
    /\ \E i \in 1..(Len(gameLoop.calls) - 2) :
          /\ gameLoop.calls[i].fn = "update" /\ gameLoop.calls[i].outcome = "throws"
          /\ gameLoop.calls[i + 1].fn = "update"
          /\ gameLoop.calls[i + 1].outcome = "returns"
          /\ gameLoop.calls[i + 2].fn = "render"

---------------------------------------------------------------------------
\* initializeGame with some collaborators missing, and the game it starts

InitDependencies ==
    \E build \in Builds, given \in SUBSET Dependencies :
        Start([Constructed(build) EXCEPT !.dependencies = given])

\* initializeGame runs, once
InitializeGame ==
    /\ hist.op = "construct"
    /\ Commit(initializeGame(W), "initializeGame", initializationError(W), NoParams)

\* the time between two frames of the started game, in milliseconds
GameFrameDuration == 1000

\* seconds as the thirds of a second the modes count in
Thirds(seconds) == 3 * seconds

\* the GameLoop after the frame callback requested under id has run, one
\* frame duration later, with an update function that returns or throws
GameFrameLoop(id, updateOutcome) ==
    GameLoop_loop([gameLoop EXCEPT !.rafPending = @ \ {id},
                                   !.now = @ + GameFrameDuration],
                  gameLoop.now + GameFrameDuration, updateOutcome, "returns")

\* the browser runs the frame callback requested under id, with
\* stateManager.update as its update function: an error it throws is caught
\* by the callback, which stops the loop; stateManager.render returns
GameFrame(id) ==
    /\ id \in gameLoop.rafPending
    /\ Len(gameLoop.calls) + 2 <= MaxLoopCalls
    /\ currentStateName # Null
    /\ Commit(CHOOSE w \in
                { [w1 EXCEPT !.gameLoop = IF Threw(w1) THEN GameFrameLoop(id, "throws")
                                          ELSE GameFrameLoop(id, "returns"),
                             !.thrown = ""] :
                  w1 \in {StateManager_update(
                             W, Thirds(GameFrameLoop(id, "returns").frameCalls[1].deltaTime))} } :
                TRUE,
              "update", "", NoParams)

NextInit ==
    \/ InitializeGame
    \/ \E key \in GameKeys : currentStateName # Null /\ Drained /\ KeyDown(key)
    \/ \E id \in RafIds : GameFrame(id)
    \/ LoadingReady
    \/ \E actionName \in ActionNames : Trigger(actionName)

SpecInit == InitDependencies /\ [][NextInit]_vars

\* C30: if any of the five collaborators is missing, constructing the
\* StateManager fails with an error, no mode ever becomes current and the game
\* loop is never started: update and render are never called.
C30_MissingDependencyIsFatal ==
    dependencies # Dependencies =>
        /\ hist.op # "construct" => hist.key = "missing core dependencies"
        /\ currentStateName = Null /\ currentState = Null
        /\ ~ gameLoop.isRunning
        /\ gameLoop.rafPending = {}
        /\ gameLoop.calls = <<>>

\* C30 happens: initializeGame ran without the player
C30_Witness ==
    /\ hist.op = "initializeGame"
    /\ dependencies = Dependencies \ {"player"}
    /\ hist.key # ""
    /\ currentStateName = Null

\* C31: after stop() has returned, neither update nor render is called until
\* start() is called, also when stop() is called from inside the update
\* callback of the running frame.
C31_NoCallAfterStop ==
    \A i \in 1..Len(gameLoop.calls) : ~ gameLoop.calls[i].afterStop

\* C32: whatever the interleaving of start(), stop() and frame callbacks, stop()
\* inside update followed by start() before the next frame included, at most
\* one frame callback is pending, so update runs at most once per animation
\* frame.
C32_OneFramePending ==
    Cardinality(gameLoop.rafPending) <= 1

---------------------------------------------------------------------------
\* Completing levels

\* C34: every level LevelManager defines has a tile of kind exit-node, and the
\* barrier and the corrupted tile its definition places have those kinds, so
\* the level being played can be completed.
C34_EveryLevelHasExit ==
    /\ (currentStateName = "PLAYING" /\ currentLevel \in LevelIds) =>
          \E p \in GridCells : TileNow(p).type = "exit-node"
    /\ \A id \in LevelIds :
          \E x \in 0..(LevelWidth(id) - 1), y \in 0..(LevelHeight(id) - 1) :
              LevelTileType(id, x, y) = "exit-node"
    /\ LevelTileType(2, 13, 1) = "barrier"
    /\ LevelTileType(2, 13, 3) = "corrupted"

\* the tile _defineLevel2 means to be the exit node
Level2Exit == << 14, 5 >>

\* the position a level's definition hands to _placeTile for its exit node
LevelExit(levelId) == IF levelId = 1 THEN << 11, 2 >> ELSE Level2Exit

\* a level is being played and the player is next to the tile its definition
\* places the exit node on, or on it
InitNearExit ==
    \E build \in Builds, levelId \in LevelIds :
        \E x \in {LevelExit(levelId)[1] - 1, LevelExit(levelId)[1]} :
            Start(PlayingAt(build, levelId, x, LevelExit(levelId)[2]))

NextLevels ==
    \/ \E key \in GameKeys : Drained /\ KeyDown(key)
    \/ Frame
    \/ LoadingReady
    \/ \E actionName \in ActionNames : Trigger(actionName)

SpecLevels == InitNearExit /\ [][NextLevels]_vars

\* the confirm listener of LEVEL_COMPLETE has just run
ConfirmedLevelComplete ==
    /\ hist.op = "trigger" /\ hist.key = "confirm"
    /\ hist.preState = "LEVEL_COMPLETE"

---------------------------------------------------------------------------
\* Escape in the two input modes

\* keys of the Escape specification: Escape, a phrase character, a digit and
\* a simple command key
EscapeKeys == {"Escape", "a", "2", "x"}

\* PlayingState has been entered (its pause listener is registered) and a
\* collaborator switches the input mode
NextEscape ==
    \/ \E key \in EscapeKeys : Drained /\ KeyDown(key)
    \/ GetCommands
    \/ \E newMode \in {INPUT_MODE.NORMAL, INPUT_MODE.TYPING} : SetMode(newMode)
    \/ \E isActive \in BOOLEAN : SetActive(isActive)
    \/ \E actionName \in ActionNames : Trigger(actionName)

InitEscape == \E build \in Builds : Start(PlayingAt(build, 1, 1, 1))

SpecEscape == InitEscape /\ [][NextEscape]_vars

\* Escape has just been handled by the active InputHandler
EscapePressed ==
    hist.op = "key" /\ hist.key = "Escape" /\ hist.preActive

\* C35: in text-entry mode Escape invokes no listener and emits exactly the
\* exit-typing command; in navigation mode with a pause listener registered,
\* Escape invokes that listener and emits no command.
C35_EscapeByMode ==
    EscapePressed =>
        /\ hist.preMode = INPUT_MODE.TYPING =>
              /\ emitted = << [type |-> "EXIT_TYPING"] >>
              /\ lifecycle = <<>>
              /\ currentStateName = hist.preState
        /\ (hist.preMode = INPUT_MODE.NORMAL /\ "pause" \in hist.preListeners) =>
              /\ emitted = <<>>
              /\ lifecycle # <<>>
              /\ currentStateName = "PAUSED"

\* Escape was pressed in text-entry mode while the pause listener was registered
C35_Witness ==
    /\ EscapePressed
    /\ hist.preMode = INPUT_MODE.TYPING
    /\ "pause" \in hist.preListeners
    /\ emitted = << [type |-> "EXIT_TYPING"] >>

\* Escape was pressed in navigation mode and the pause listener paused the game
C35_WitnessPause ==
    /\ EscapePressed
    /\ hist.preMode = INPUT_MODE.NORMAL
    /\ "pause" \in hist.preListeners
    /\ currentStateName = "PAUSED"

---------------------------------------------------------------------------
\* The parser's buffer and prefix

\* a numeric prefix is empty or a string of digits that starts with 1-9
WellFormedPrefix(prefix) ==
    \/ prefix = <<>>
    \/ /\ prefix[1] \in Digits19
       /\ \A i \in 1..Len(prefix) : prefix[i] \in Digits09

\* C36: the command buffer is always one of '', 'd', 'c', 'y', 'r'; the
\* numeric prefix is always empty or a string of digits whose first digit is
\* 1-9; a key event that arrives while the handler is inactive changes
\* neither the buffer, the prefix, the typing index nor the queue.
C36_BufferAndPrefixWellFormed ==
    /\ commandBuffer \in {"", "d", "c", "y", "r"}
    /\ WellFormedPrefix(numericPrefix)
    /\ (hist.op = "key" /\ ~ hist.preActive) =>
          /\ commandBuffer = hist.preBuffer
          /\ numericPrefix = hist.prePrefix
          /\ currentTypingIndex = hist.preIndex
          /\ commandQueue = hist.preQueue

\* an operator is pending after the prefix 20
C36_PrefixWithZero ==
    /\ numericPrefix = << "2", "0" >>
    /\ commandBuffer = "d"

\* a key arrived while the handler was inactive in the middle of a phrase
C36_Witness ==
    /\ hist.op = "key" /\ ~ hist.preActive
    /\ hist.key \in {"d", "2", "a", "b", "Backspace"}
    /\ mode = INPUT_MODE.TYPING
    /\ hist.preIndex > 0

---------------------------------------------------------------------------
\* One enemy, driven through takeDamage and update

\* amounts of damage: none, one point, and what a range action deals
DamageAmounts == {0, 1, RangeDamage}

\* player positions handed to update: the start of level 1, a tile of its
\* upper barrier row, a tile of level 2's lower barrier row, a tile of its
\* right barrier column, and a position left of every grid
ChaseTargets == { << 1, 2 >>, << 14, 0 >>, << 13, 7 >>, << 29, 5 >>, << -1, 2 >> }

\* the k-th enemy a level spawns, alone, with or without setLevelGrid done
SpawnedAlone(build, levelId, k, hasGrid) ==
    [PlayingAt(build, levelId, PlayerStart(levelId).x, PlayerStart(levelId).y) EXCEPT
        !.enemies = << [EnemySpawns(levelId)[k] EXCEPT
                            !.currentLevelGrid = IF hasGrid THEN @ ELSE 0] >>]

InitEnemy ==
    \E build \in Builds, levelId \in LevelIds, k \in 1..3, hasGrid \in BOOLEAN :
        /\ k <= Len(EnemySpawns(levelId))
        /\ Start(SpawnedAlone(build, levelId, k, hasGrid))

\* enemy.takeDamage(amount)
TakeDamage(amount) ==
    /\ enemies # <<>>
    /\ Commit([W EXCEPT !.enemies[1] = Enemy_takeDamage(@, amount)],
              "takeDamage", "", [amount |-> amount])

\* enemy.update(deltaTime, playerPosition), while the enemy's cooldown is
\* not more than MaxFrames thirds of a second behind and its rounding error
\* is at most MaxCooldownError
ChaserUpdate(target) ==
    /\ enemies # <<>>
    /\ enemies[1].moveCooldown >= - MaxFrames
    /\ Abs(enemies[1].moveCooldownError) <= MaxCooldownError
    /\ Commit([W EXCEPT !.enemies[1] = Chaser_update(@, DeltaTime, target[1], target[2])],
              "chaserUpdate", "", [x |-> target[1], y |-> target[2]])

NextEnemy ==
    \/ \E amount \in DamageAmounts : TakeDamage(amount)
    \/ \E target \in ChaseTargets : ChaserUpdate(target)

SpecEnemy == InitEnemy /\ [][NextEnemy]_vars

\* C38: whatever takeDamage calls an enemy receives, its health is never
\* negative, its state is 'defeated' exactly when its health has reached 0,
\* and an enemy that was defeated stays defeated.
C38_DefeatedAtZero ==
    \A i \in 1..Len(enemies) :
        /\ enemies[i].health >= 0
        /\ enemies[i].state = "defeated" <=> enemies[i].health = 0
        /\ (hist.op \in {"takeDamage", "chaserUpdate"}
              /\ hist.preEnemies[i].state = "defeated") =>
                 /\ enemies[i].state = "defeated"
                 /\ isDefeated(enemies[i])

\* a defeated enemy has taken damage again
C38_Witness ==
    /\ hist.op = "takeDamage" /\ hist.params.amount > 0
    /\ hist.preEnemies[1].state = "defeated"
    /\ enemies[1].state = "defeated" /\ enemies[1].health = 0

Manhattan(e, target) == Abs(target[1] - e.x) + Abs(target[2] - e.y)

\* C39: in one update a Chaser moves at most one tile along one axis, only
\* onto an in-bounds tile that is not a barrier, and every move brings it
\* exactly one step closer to the player (Manhattan distance); it does not
\* move when it is defeated, on the player's tile, or without a level grid.
C39_ChaserStep ==
    hist.op = "chaserUpdate" =>
        LET before == hist.preEnemies[1]
            after == enemies[1]
            target == << hist.params.x, hist.params.y >>
            moved == after.x # before.x \/ after.y # before.y
        IN /\ Abs(after.x - before.x) + Abs(after.y - before.y) <= 1
           /\ moved =>
                /\ before.currentLevelGrid # 0
                /\ after.x \in 0..(LevelWidth(before.currentLevelGrid) - 1)
                /\ after.y \in 0..(LevelHeight(before.currentLevelGrid) - 1)
                /\ LevelTileType(before.currentLevelGrid, after.x, after.y) # "barrier"
                /\ Manhattan(after, target) = Manhattan(before, target) - 1
           /\ (isDefeated(before) \/ Manhattan(before, target) = 0
                 \/ before.currentLevelGrid = 0) => ~ moved

\* the preferred step was blocked by a barrier and the Chaser took the other axis
C39_Witness ==
    /\ hist.op = "chaserUpdate"
    /\ hist.preEnemies[1].x # enemies[1].x
    /\ Abs(hist.params.x - hist.preEnemies[1].x) <= Abs(hist.params.y - hist.preEnemies[1].y)
    /\ LevelTileType(enemies[1].currentLevelGrid, hist.preEnemies[1].x,
                     hist.preEnemies[1].y + Sign(hist.params.y - hist.preEnemies[1].y))
          = "barrier"

\* the Chaser stood at the edge of the grid, the player beyond it: no move
C39_WitnessEdge ==
    /\ hist.op = "chaserUpdate"
    /\ hist.preEnemies[1].x = 0 /\ hist.params.x < 0
    /\ hist.preEnemies[1].y = hist.params.y
    /\ hist.preEnemies[1].moveCooldown <= DeltaTime
    /\ enemies[1].x = 0

---------------------------------------------------------------------------
\* The reach of a range action

\* C37: a range action changes no tile outside the rectangle its corners
\* span (in either order) and no tile that is not corrupted; coordinates of
\* the rectangle outside the grid are skipped: no tile appears there, and the
\* part of the rectangle inside the grid is treated as it would be alone.
C37_RangeStaysInside ==
    RangeApplied =>
        /\ \A p \in GridCells :
              TileNow(p) # TileBefore(p) =>
                 /\ InRange(hist.params.target, p)
                 /\ TileBefore(p).type = "corrupted"
        /\ DOMAIN currentLevelTiles.tiles \subseteq DOMAIN hist.preTiles \cup GridCells
        /\ \A p \in Convertible(hist.params.target) :
              TileNow(p) = [char |-> ".", type |-> "pathway"]

\* a rectangle that reaches out of the grid on both axes cleared a corrupted
\* tile and left a corrupted tile outside it alone
C37_Witness ==
    /\ RangeApplied
    /\ Min(hist.params.target.startX, hist.params.target.endX) < 0
    /\ Min(hist.params.target.startY, hist.params.target.endY) < 0
    /\ Convertible(hist.params.target) # {}
    /\ \E p \in GridCells : /\ ~ InRange(hist.params.target, p)
                            /\ TileBefore(p).type = "corrupted"
                            /\ TileNow(p) = TileBefore(p)

=============================================================================
